---- MODULE Spec2Model ----
(***************************************************************************)
(* Load-generation engine of generate_benchmark_report.py: the run_threads *)
(* coordinator, its worker threads with their socket pools and the shared  *)
(* statistics dictionaries (benchmark_compute_api, benchmark_validation_   *)
(* api), and the read_response framer.                                     *)
(***************************************************************************)
EXTENDS Integers, Sequences, FiniteSets, TLC

\* ------------------------------------------------------------ bounds
\* Attempts (loop iterations that pass the stop check) started per pass
\* when two workers run.
MaxAttempts == 2
\* The same when one worker runs alone.
MaxSoloAttempts == 3
\* Most sockets the target accepts from one worker while it fills its pool.
MaxPool == 2
\* The same when one worker runs alone: the whole pool of the compute run.
MaxSoloPool == 4
\* Longest list of latency samples pct is applied to, the example aside.
MaxSamples == 3
\* Scenarios wrk is run on (the code has 5 sizes, 3 validation mixes).
NumScenarios == 2

\* ------------------------------------------------------------ values
\* read_response's "no status" (return None, None).
None == -1
\* sock = None in the worker loop.
NoSock == <<>>

Benches == {"compute", "validation"}

\* The variants one run counts: two of the sizes [1, 8, 64, 256, 1024] of
\* the compute benchmark (named as in its metric keys), the two keys of the
\* validation benchmark.
Variants(b) ==
  IF b = "compute" THEN {"size=1", "size=8"} ELSE {"valid", "invalid"}

\* Status codes the target answers with.
Statuses == {200, 400, 422, 500}

\* What read_response hands the worker: a status or None.
RecvResults == Statuses \cup {None}

\* Measured latencies, in ms.
LatVals == {1, 2}

\* The thread counts explored: one worker, and two standing for the larger
\* counts (the code runs 1, 4, 8, 16 and 4, 8).
ThreadCounts == {1, 2}

Min(a, b) == IF a < b THEN a ELSE b
Max(a, b) == IF a > b THEN a ELSE b

AllWorkers == 1..2

Accumulators == {"totals", "errors", "latencies", "status_hist"}

VARIABLES
  bench,          \* which benchmark_*_api method runs
  thread_count,   \* run_threads' thread_count
  collect_stats,  \* run_threads' collect_stats: FALSE warm-up, TRUE measurement
  cpc,            \* position of run_threads' caller thread
  nstarted,       \* threads started by "for t in threads: t.start()"
  njoined,        \* threads joined by "for t in threads: t.join()"
  stop_event,     \* threading.Event
  totals, errors, latencies, status_hist,   \* run_threads' dictionaries
  pc,             \* worker -> position in worker()
  socks,          \* worker -> its list socks
  idx,            \* worker -> its round-robin counter idx
  key,            \* worker -> size / key of the current iteration
  sock,           \* worker -> sock of the current iteration
  status,         \* worker -> status of the current iteration
  tmp,            \* worker -> value read by a pending "x[k] += 1"
  nconn,          \* worker -> sockets it has created in this pass
  open,           \* sockets connected and not closed
  attempts,       \* iterations started in this pass
  wcount,         \* history: worker -> variant -> responses it counted
  lastfail,       \* history: worker -> socket its previous iteration discarded
  failed,         \* history: sockets on which sendall / read_response raised
  malformed,      \* history: sockets on which read_response returned None
  writers,        \* history: accumulator -> workers that wrote it this pass
  borrowed,       \* history: worker -> sockets of its attempts since its pool last changed
  resp,           \* framer: the bytes the target sends for one response
  expect,         \* framer: what resp was built from
  pos,            \* framer: bytes recv has handed out
  fpc,            \* framer: position in read_response
  data,           \* framer: read_response's data
  rest,           \* framer: read_response's rest
  fstatus,        \* framer: read_response's status
  to_read,        \* framer: read_response's to_read
  result,         \* framer: the pair read_response returned
  nrecv,          \* history: recv calls that returned bytes (capped)
  seen,           \* history: how the chunks fell
  values,         \* report: latencies[size] of one variant
  pcent,          \* report: the p of a call pct(values, p)
  pct_result,     \* report: what that call returned
  out,            \* report: the percentile entries written to self.results
  rpc,            \* report: position in the emission of one variant
  rxtick,         \* history: worker -> parity of the chunks its header loop got
  wpc,            \* wrk: position in benchmark_*_api
  scen,           \* wrk: the scenario the for loop is at
  wrk_ok,         \* wrk: wrk_ok
  wresults,       \* wrk: the keys of self.results[category]
  legacy,         \* wrk: what became of the built-in engine
  wouts,          \* history: what run_wrk returned, scenario by scenario
  sv_pc,          \* start_server: position
  sv_ret,         \* start_server: what it returned, and at which return
  proc,           \* start_server: self.server_proc, as poll() would find it
  clock,          \* start_server: time.time() since Popen, in tenths of a second
  got,            \* history: the probe of this call read a whole response
  starts,         \* history: what each call of start_server returned
  weights,        \* selection: the weights table, in hundredths, or none
  nbodies,        \* selection: #bodies
  draw,           \* selection: math.random() / rng.random(), in hundredths
  picked,         \* selection: the index picked, counted from 1
  ppc,            \* selection: which selection ran
  bfile,          \* compare: the file --baseline names
  cfile,          \* compare: the file --current names
  threshold,      \* compare: args.threshold
  no_fail,        \* compare: args.no_fail
  mpc,            \* compare: position in main
  results,        \* compare: compare_metrics' results
  has_regression, \* compare: compare_metrics' has_regression
  exit_code,      \* compare: the exit status of the script
  request_cache,  \* requests: variant -> encoded request
  rqc,            \* requests: position of benchmark_*_api around the encoding
  nresp,          \* connection: requests sent on it so far
  paired,         \* history: every response read on it was the one asked for
  phase,          \* main: which of its calls that start a server is next or running
  orphans,        \* history: started processes alive that self.server_proc lost
  md_results,     \* report: self.results when generate_markdown is called
  md_pc,          \* report: position in generate_markdown
  md_i,           \* report: generate_markdown's local i, None while unbound
  md_k,           \* report: categories the for loop has taken
  md_out,         \* report: what was written, section by section
  readme,         \* readme: the text of README.md on disk
  content,        \* readme: main's local content
  bench_lines,    \* readme: main's bench_lines
  latest_lines,   \* readme: main's latest_lines
  upc,            \* readme: position in main
  uerr,           \* readme: the exception main ended with, None if none
  rb_text,        \* replace_block: its argument text
  rb_pair,        \* replace_block: which pair of markers start and end are
  rb_lines,       \* replace_block: its argument lines
  rb_once,        \* replace_block: what one application gave
  rb_twice,       \* replace_block: what a second application gave
  rb_pc           \* replace_block: applications made so far

vars == <<bench, thread_count, collect_stats, cpc, nstarted, njoined,
          stop_event, totals, errors, latencies, status_hist, pc, socks, idx,
          key, sock, status, tmp, nconn, open, attempts, wcount, lastfail,
          failed, malformed, writers, borrowed, resp, expect, pos, fpc, data,
          rest, fstatus, to_read, result, nrecv, seen, values, pcent,
          pct_result, out, rpc, rxtick, wpc, scen, wrk_ok, wresults, legacy,
          wouts, sv_pc, sv_ret, proc, clock, got, starts, weights, nbodies,
          draw, picked, ppc, bfile, cfile, threshold, no_fail, mpc, results,
          has_regression, exit_code, request_cache, rqc, nresp, paired, phase,
          orphans, md_results, md_pc, md_i, md_k, md_out, readme, content,
          bench_lines, latest_lines, upc, uerr, rb_text, rb_pair, rb_lines,
          rb_once, rb_twice, rb_pc>>

fvars == <<resp, expect, pos, fpc, data, rest, fstatus, to_read, result,
           nrecv, seen>>

reportVars == <<values, pcent, pct_result, out, rpc>>
wrkVars == <<wpc, scen, wrk_ok, wresults, legacy, wouts>>

startVars == <<sv_pc, sv_ret, proc, clock, got, starts>>

\* The variables of the other functions and scripts.
pickVars == <<weights, nbodies, draw, picked, ppc>>

cmpVars == <<bfile, cfile, threshold, no_fail, mpc, results, has_regression,
             exit_code>>

reqVars == <<request_cache, rqc>>

connVars == <<nresp, paired>>

procVars == <<phase, orphans>>

mdVars == <<md_results, md_pc, md_i, md_k, md_out>>

readmeVars == <<readme, content, bench_lines, latest_lines, upc, uerr>>

blockVars == <<rb_text, rb_pair, rb_lines, rb_once, rb_twice, rb_pc>>

auxVars == <<connVars, procVars, mdVars, readmeVars, blockVars>>

extVars == <<startVars, pickVars, cmpVars, reqVars, auxVars>>

\* The variables of the code around run_threads.
offVars == <<reportVars, wrkVars, extVars>>

coordVars == <<cpc, nstarted, njoined>>
statVars == <<totals, errors, latencies, status_hist>>
histVars == <<wcount, lastfail, failed, malformed, writers, borrowed>>

Workers == 1..thread_count

\* ------------------------------------------------------------ helpers

\* Attempts the time.sleep(duration_s) of one pass leaves room for.
Budget == IF thread_count = 1 THEN MaxSoloAttempts ELSE MaxAttempts

\* Most sockets the target accepts from one worker while it fills its pool.
PoolCap == IF thread_count = 1 THEN MaxSoloPool ELSE MaxPool

\* connections_per_thread of the two run_threads.
ConnectionsPerThread(b, tc) ==
  IF b = "compute" THEN Max(4, Min(32, tc * 4)) ELSE Max(8, Min(32, tc * 2))

\* The pass a socket was created in.
PassNo == IF collect_stats THEN 2 ELSE 1

\* A make_socket that hands out the sockets of one pool common to all workers.
MakeSocketShared(w, n) == <<PassNo, 0, n>>

\* make_socket(): a new socket object, distinct from every other one.
MakeSocket(w, n) == <<PassNo, w, n>>

\* A try block that opens a socket for every attempt.
NeedsSocketAlways(s) == TRUE

\* if not sock:
NeedsSocket(s) == s = NoSock

\* A borrow that always takes the first socket of the pool.
BorrowFirst(pool, i) == pool[1]

\* socks[idx % len(socks)]
Borrow(pool, i) == pool[(i % Len(pool)) + 1]

\* A handler that closes the socket and leaves it in the list.
RemoveNothing(s, x) == s

\* list.remove(x): drops the first element equal to x.
Remove(s, x) ==
  IF \E i \in 1..Len(s) : s[i] = x
  THEN LET i == CHOOSE j \in 1..Len(s) :
                  s[j] = x /\ \A k \in 1..(j - 1) : s[k] # x
       IN SubSeq(s, 1, i - 1) \o SubSeq(s, i + 1, Len(s))
  ELSE s

Range(s) == {s[i] : i \in 1..Len(s)}

\* What sock.close() in the except handler can do. close(2) of a connected
\* TCP socket does not fail, and Python ignores ECONNRESET on close.
SockCloseResults == {"ok"}

\* The branch the compute worker takes after counting a response.
ClassifyCompute(cs, st) ==
  IF cs /\ st = 200 THEN "lat"
  ELSE IF st # 200 THEN "err"
  ELSE "none"

\* The branch the validation worker takes after counting a response.
ClassifyValidation(cs, k, st) ==
  IF ~cs THEN (IF st = None \/ st >= 500 THEN "err" ELSE "none")
  ELSE IF k = "valid" THEN (IF st = 200 THEN "lat" ELSE "err")
  ELSE (IF st \in {400, 422} THEN "lat" ELSE "err")

Classify(b, cs, k, st) ==
  IF b = "compute" THEN ClassifyCompute(cs, st) ELSE ClassifyValidation(cs, k, st)

\* A handler that retries at once, without going back to the stop check.
AfterExceptRetry == "try"

\* Where a worker goes after the except handler: "continue".
AfterExcept == "top"

\* The locals of an iteration are dead once it ends: the next iteration
\* assigns each of them before reading it.
EndIteration(w) ==
  /\ key' = [key EXCEPT ![w] = CHOOSE v \in Variants(bench) : TRUE]
  /\ sock' = [sock EXCEPT ![w] = NoSock]
  /\ status' = [status EXCEPT ![w] = None]
  /\ tmp' = [tmp EXCEPT ![w] = 0]

\* ------------------------------------------------------------ bytes

\* A bytes object is a sequence of one-character strings.
CRLF == <<"\r", "\n">>
Terminator == CRLF \o CRLF

\* What bytes.split() and bytes.strip() treat as whitespace.
Whitespace == {" ", "\t", "\n", "\r", "\f"}

DigitChars == <<"0", "1", "2", "3", "4", "5", "6", "7", "8", "9">>
UpperChars == <<"A", "B", "C", "D", "E", "F", "G", "H", "I", "J", "K", "L", "M",
                "N", "O", "P", "Q", "R", "S", "T", "U", "V", "W", "X", "Y", "Z">>
LowerChars == <<"a", "b", "c", "d", "e", "f", "g", "h", "i", "j", "k", "l", "m",
                "n", "o", "p", "q", "r", "s", "t", "u", "v", "w", "x", "y", "z">>

IsDigit(c) == \E i \in 1..10 : DigitChars[i] = c
DigitVal(c) == (CHOOSE i \in 1..10 : DigitChars[i] = c) - 1

\* pat occurs in s at index i.
OccursAt(s, pat, i) ==
  /\ i + Len(pat) - 1 <= Len(s)
  /\ \A j \in 1..Len(pat) : s[i + j - 1] = pat[j]

\* The first occurrence of pat in s at index i or later, 0 when none.
RECURSIVE FindFrom(_, _, _)
FindFrom(s, pat, i) ==
  IF i + Len(pat) - 1 > Len(s) THEN 0
  ELSE IF OccursAt(s, pat, i) THEN i
  ELSE FindFrom(s, pat, i + 1)

\* bytes.find(pat) + 1: the first occurrence, 0 when there is none.
Find(s, pat) == FindFrom(s, pat, 1)

\* pat in s
Contains(s, pat) == Find(s, pat) # 0

\* s.split(pat, 1), for s that contains pat
SplitOnce(s, pat) ==
  LET i == Find(s, pat)
  IN <<SubSeq(s, 1, i - 1), SubSeq(s, i + Len(pat), Len(s))>>

\* s.split(pat)
RECURSIVE SplitAll(_, _)
SplitAll(s, pat) ==
  IF ~Contains(s, pat) THEN <<s>>
  ELSE <<SplitOnce(s, pat)[1]>> \o SplitAll(SplitOnce(s, pat)[2], pat)

\* s.lstrip(), s.rstrip(), s.strip()
RECURSIVE LStrip(_)
LStrip(s) ==
  IF s # <<>> /\ Head(s) \in Whitespace THEN LStrip(Tail(s)) ELSE s

RECURSIVE RStrip(_)
RStrip(s) ==
  IF s # <<>> /\ s[Len(s)] \in Whitespace
  THEN RStrip(SubSeq(s, 1, Len(s) - 1)) ELSE s

Strip(s) == RStrip(LStrip(s))

\* The length of the run of non-whitespace that s[i..] starts with.
RECURSIVE WordLen(_, _)
WordLen(s, i) ==
  IF i > Len(s) \/ s[i] \in Whitespace THEN 0 ELSE 1 + WordLen(s, i + 1)

\* s.split(): the maximal runs of non-whitespace
RECURSIVE SplitWS(_)
SplitWS(s) ==
  LET t == LStrip(s)
  IN IF t = <<>> THEN <<>>
     ELSE <<SubSeq(t, 1, WordLen(t, 1))>>
          \o SplitWS(SubSeq(t, WordLen(t, 1) + 1, Len(t)))

\* s.lower()
LowerMap == [i \in 1..26 |-> LowerChars[i]]
UpperIndex == [c \in {UpperChars[i] : i \in 1..26} |->
                 CHOOSE i \in 1..26 : UpperChars[i] = c]

LowerChar(c) ==
  IF c \in DOMAIN UpperIndex THEN LowerMap[UpperIndex[c]] ELSE c

Lower(s) == [i \in 1..Len(s) |-> LowerChar(s[i])]

\* s.startswith(p)
StartsWith(s, p) == OccursAt(s, p, 1)

\* int(s) succeeds: surrounding whitespace, an optional sign, then digits.
IntOk(s) ==
  LET t == Strip(s)
      u == IF t # <<>> /\ t[1] \in {"+", "-"} THEN Tail(t) ELSE t
  IN u # <<>> /\ \A i \in 1..Len(u) : IsDigit(u[i])

RECURSIVE DigitsVal(_)
DigitsVal(u) ==
  IF u = <<>> THEN 0
  ELSE 10 * DigitsVal(SubSeq(u, 1, Len(u) - 1)) + DigitVal(u[Len(u)])

\* int(s), for s with IntOk(s)
IntOf(s) ==
  LET t == Strip(s)
  IN IF t[1] = "-" THEN 0 - DigitsVal(Tail(t))
     ELSE IF t[1] = "+" THEN DigitsVal(Tail(t))
     ELSE DigitsVal(t)

\* str(n).encode() for n >= 0
RECURSIVE Digits(_)
Digits(n) ==
  IF n < 10 THEN <<DigitChars[n + 1]>>
  ELSE Digits(n \div 10) \o <<DigitChars[(n % 10) + 1]>>

\* ------------------------------------------------------------ read_response

\* sock.recv(4096) of the header loop.
HeaderRecvSize == 4096

ContentLengthKey ==
  <<"c", "o", "n", "t", "e", "n", "t", "-", "l", "e", "n", "g", "t", "h", ":">>

\* A scan that ignores the header: content_length stays as it was.
ContentLengthIgnored(line, content_length) == content_length

\* The body of "for line in lines[1:]" for one line: the new content_length.
ContentLengthOf(line, content_length) ==
  IF StartsWith(Lower(line), ContentLengthKey)
  THEN LET v == SplitOnce(line, <<":">>)[2]
       IN IF IntOk(v) THEN IntOf(v) ELSE 0
  ELSE content_length

\* for line in lines[1:]: ...   -- lines[i..], content_length so far
RECURSIVE ContentLengthScan(_, _, _)
ContentLengthScan(lines, i, content_length) ==
  IF i > Len(lines) THEN content_length
  ELSE ContentLengthScan(lines, i + 1, ContentLengthOf(lines[i], content_length))

\* A to_read that forgets the body bytes that came with the headers.
ToReadWhole(content_length, r) == Max(content_length, 0)

\* to_read = max(content_length - len(rest), 0)
ToRead(content_length, r) == Max(content_length - Len(r), 0)

\* read_response from "header, rest = data.split(...)" to "to_read = ...",
\* for data that holds the terminator.
ParseHead(d) ==
  LET header == SplitOnce(d, Terminator)[1]
      r == SplitOnce(d, Terminator)[2]
      lines == SplitAll(header, CRLF)
      parts == SplitWS(lines[1])
  IN IF Len(lines) < 1 THEN [ok |-> FALSE]
     ELSE IF Len(parts) < 2 THEN [ok |-> FALSE]
     ELSE IF ~IntOk(parts[2]) THEN [ok |-> FALSE]
     ELSE [ok |-> TRUE, status |-> IntOf(parts[2]), rest |-> r,
           to_read |-> ToRead(ContentLengthScan(lines, 2, 0), r)]

\* The body None of "return None, None".
NoBody == <<"None">>

\* recv calls counted by nrecv (later ones are not told apart).
MaxRecvCounted == 3

\* ---- the responses read_response is run on

HTTP11 == <<"H", "T", "T", "P", "/", "1", ".", "1">>
ReasonOK == <<"O", "K">>

HeaderNames ==
  { <<"C", "o", "n", "t", "e", "n", "t", "-", "L", "e", "n", "g", "t", "h">>,
    <<"c", "o", "n", "t", "e", "n", "t", "-", "l", "e", "n", "g", "t", "h">>,
    <<"C", "O", "N", "T", "E", "N", "T", "-", "L", "E", "N", "G", "T", "H">> }

\* Between the header name and its value.
Separators == { <<":", " ">>, <<":">> }

\* Header lines ahead of Content-Length.
Preambles == { <<>>, <<"X", ":", " ", "y">> \o CRLF }

\* The layouts of the header block explored: preamble, name, separator.
Layouts ==
  ({<<>>} \X HeaderNames \X {<<":", " ">>})
  \cup (Preambles \X {CHOOSE n \in HeaderNames : n[1] = "c"} \X Separators)

Bodies ==
  { <<>>,
    <<"h", "i">>,
    <<"h", "e", "l", "l", "o", " ", "w", "o", "r", "l", "d">>,
    <<"a">> \o Terminator \o <<"b">> }

FramerStatuses == {200, 422}

\* A response that honours the target contract.
WellFormed(st, pre, name, sep, body) ==
  HTTP11 \o <<" ">> \o Digits(st) \o <<" ">> \o ReasonOK \o CRLF
  \o pre \o name \o sep \o Digits(Len(body)) \o Terminator \o body

\* Status lines read_response rejects: no token, one token, a status that is
\* no number.
BadStatusLines == { <<>>, HTTP11, HTTP11 \o <<" ">> \o ReasonOK }

Malformed(line) ==
  line \o CRLF \o <<"c", "o", "n", "t", "e", "n", "t", "-", "l", "e", "n", "g",
                    "t", "h", ":", " ", "0">> \o Terminator

FramerIdle ==
  /\ resp = <<>>
  /\ expect = [wf |-> FALSE, hdr |-> 0]
  /\ pos = 0
  /\ fpc = "idle"
  /\ data = <<>>
  /\ rest = <<>>
  /\ fstatus = None
  /\ to_read = 0
  /\ result = <<None, NoBody>>
  /\ nrecv = 0
  /\ seen = {}

\* ------------------------------------------------------------ pct

\* sorted(values): s with x put in its place, for sorted s
RECURSIVE Insert(_, _)
Insert(s, x) ==
  IF s = <<>> THEN <<x>>
  ELSE IF x <= Head(s) THEN <<x>> \o s
  ELSE <<Head(s)>> \o Insert(Tail(s), x)

\* A pct that indexes the list as it was recorded.
AsRecorded(s) == s

\* sorted(values)
RECURSIVE Sorted(_)
Sorted(s) == IF s = <<>> THEN <<>> ELSE Insert(Sorted(Tail(s)), Head(s))

\* An index that takes the rank ceil(n * p / 100), counted from 1.
PctIndexCeil(n, p) == Min(Max(((n * p + 99) \div 100) - 1, 0), n - 1)

\* idx = min(max(int(len(values_sorted) * p / 100.0), 0), len(values_sorted) - 1)
\* n * p is exact and the quotient is at least 1/100 away from the next
\* integer or is one, so int() of the float quotient is the integer quotient.
PctIndex(n, p) == Min(Max((n * p) \div 100, 0), n - 1)

\* pct(values, p)
Pct(vals, p) ==
  IF vals = <<>> THEN None
  ELSE Sorted(vals)[PctIndex(Len(vals), p) + 1]

\* An emission that writes the percentile entries of every variant.
AlwaysLatencies(vals) == TRUE

\* if latencies[size]:
HasLatencies(vals) == vals # <<>>

\* The percentiles the report asks for.
ReportedPercentiles == {50, 95, 99}

\* The p explored.
Percentiles == ReportedPercentiles \cup {1, 100}

\* self.results[category][f"{key_prefix} p50"] = (pct(latencies[size], 50), "ms")
\* and the same for p95, p99: the entries as (percentile, value) pairs.
PercentileEntries(vals) ==
  IF HasLatencies(vals)
  THEN {<<p, Pct(vals, p)>> : p \in ReportedPercentiles}
  ELSE {}

\* Latency samples, in ms.
SampleVals == {10, 20, 30}

\* The sample lists explored: every list of up to MaxSamples samples, and
\* the list 10, 20, 30, 40, 50.
SampleLists ==
  UNION {[1..n -> SampleVals] : n \in 0..MaxSamples}
  \cup {<<10, 20, 30, 40, 50>>}

ReportIdle ==
  /\ values = <<>>
  /\ pcent = 50
  /\ pct_result = None
  /\ out = {}
  /\ rpc = "idle"

\* ------------------------------------------------------------ wrk

\* A metric parse_wrk_metrics did not find in the output.
Absent == None

\* run_wrk returned None or "".
NoOutput == [out |-> FALSE, throughput |-> Absent, socket_errors |-> Absent]

\* The sanity floor, in req/s.
ThroughputFloor == 1000

\* What run_wrk returns, as the metrics parse_wrk_metrics makes of it.
WrkOutputs ==
  {NoOutput} \cup
  [out : {TRUE},
   throughput : {Absent, ThroughputFloor - 1, ThroughputFloor, 2 * ThroughputFloor},
   socket_errors : {Absent, 0, 3}]

\* The keys of the dict parse_wrk_metrics returns.
MetricNames(o) ==
  (IF o.throughput # Absent THEN {"throughput"} ELSE {})
  \cup (IF o.socket_errors # Absent THEN {"socket_errors"} ELSE {})

\* A check that looks at the socket errors only.
WrkCheckErrorsOnly(o) ==
  (IF o.socket_errors # Absent THEN o.socket_errors ELSE 0) > 0

\* socket_errs > 0 or throughput < 1000.0, with the defaults 0 and 0.0
WrkCheckFails(o) ==
  LET socket_errs == IF o.socket_errors # Absent THEN o.socket_errors ELSE 0
      throughput == IF o.throughput # Absent THEN o.throughput ELSE 0
  IN socket_errs > 0 \/ throughput < ThroughputFloor

\* The key under which the built-in engine's metrics stand in wresults.
BuiltIn == <<0, "throughput">>

WrkIdle ==
  /\ wpc = "idle"
  /\ scen = 1
  /\ wrk_ok = TRUE
  /\ wresults = {}
  /\ legacy = "no"
  /\ wouts = <<>>

\* ------------------------------------------------------------ start_server

\* deadline = time.time() + 5.0, in tenths of a second
ProbeWindow == 50
\* http.client.HTTPConnection(host, port, timeout=0.5): the longest a socket
\* operation of the probe waits
ProbeTimeout == 5
\* time.sleep(0.2) after a probe that raised
ProbeSleep == 2

\* start_server has not returned.
NotReturned == [ok |-> FALSE, why |-> "none"]

StartIdle ==
  /\ sv_pc = "idle"
  /\ sv_ret = NotReturned
  /\ proc = "none"
  /\ clock = 0
  /\ got = FALSE
  /\ starts = <<>>

\* ------------------------------------------------------------ selection

\* local weights = nil
NoWeights == <<>>

\* for i, w in ipairs(weights) do acc = acc + w; if r <= acc then return i end
\* end; return #bodies      -- from position i on, with acc so far
RECURSIVE PickFrom(_, _, _, _, _)
PickFrom(ws, n, r, i, acc) ==
  IF i > Len(ws) THEN n
  ELSE IF r <= acc + ws[i] THEN i
  ELSE PickFrom(ws, n, r, i + 1, acc + ws[i])

\* pick_index() of the generated Lua script when weights are given: the
\* index of the body, for the draw r
PickIndex(ws, n, r) == PickFrom(ws, n, r, 1, 0)

\* rng.random() < 0.6, in hundredths
ValidShare == 60

\* use_valid = rng.random() < 0.6; 1 stands for the valid request, 2 for
\* rng.choice(request_invalid)
UseValid(r) == IF r < ValidShare THEN 1 ELSE 2

\* The weights explored, in hundredths; 60, 25, 15 are the code's.
WeightVals == {0, 15, 25, 60}

\* Most bodies of one wrk scenario.
MaxBodies == 3

\* The weight tables explored.
WeightLists == UNION {[1..n -> WeightVals] : n \in 2..MaxBodies}

\* The draws explored, in hundredths of [0, 1).
DrawVals == {0, 15, 25, 59, 60, 61, 85, 99}

PickIdle ==
  /\ weights = NoWeights
  /\ nbodies = 1
  /\ draw = 0
  /\ picked = 0
  /\ ppc = "idle"

\* ------------------------------------------------------------ compare_benchmarks

\* latency_keywords
LatencyKeywords ==
  { <<"l", "a", "t", "e", "n", "c", "y">>, <<"p", "5", "0">>, <<"p", "9", "0">>, <<"p", "9", "5">>, <<"p", "9", "9">>, <<"p", "9", "9", "9">>, <<"d", "u", "r", "a", "t", "i", "o", "n">>, <<"t", "i", "m", "e">> }

\* throughput_keywords
ThroughputKeywords ==
  { <<"t", "h", "r", "o", "u", "g", "h", "p", "u", "t">>, <<"o", "p", "s", "/", "s", "e", "c">>, <<"r", "e", "q", "/", "s">>, <<"o", "p", "e", "r", "a", "t", "i", "o", "n", "s">>, <<"r", "a", "t", "e">> }

\* is_latency_metric(name)
IsLatencyMetric(name) == \E kw \in LatencyKeywords : Contains(Lower(name), kw)

\* is_throughput_metric(name)
IsThroughputMetric(name) ==
  \E kw \in ThroughputKeywords : Contains(Lower(name), kw)

\* The metric names of the files explored: a latency, a throughput, a
\* throughput of the "Timer System" category, and one of neither kind.
NameP99 == <<"p", "9", "9">>
NameThroughput == <<"t", "h", "r", "o", "u", "g", "h", "p", "u", "t">>
NameTimerThroughput == <<"T", "i", "m", "e", "r", " ", "t", "h", "r", "o", "u", "g", "h", "p", "u", "t">>
NameAllocs == <<"a", "l", "l", "o", "c", "s">>

CompareNames == {NameP99, NameThroughput, NameTimerThroughput, NameAllocs}

\* The characters of the names, in code point order.
CharOrder ==
  <<" ", "/">> \o DigitChars \o UpperChars \o <<"_">> \o LowerChars

CharRank(c) == CHOOSE i \in 1..Len(CharOrder) : CharOrder[i] = c

\* a < b, for str
RECURSIVE StrLess(_, _)
StrLess(a, b) ==
  IF b = <<>> THEN FALSE
  ELSE IF a = <<>> THEN TRUE
  ELSE IF Head(a) = Head(b) THEN StrLess(Tail(a), Tail(b))
  ELSE CharRank(Head(a)) < CharRank(Head(b))

\* sorted(names), for a set of str
RECURSIVE SortedNames(_)
SortedNames(names) ==
  IF names = {} THEN <<>>
  ELSE LET m == CHOOSE x \in names : \A y \in names \ {x} : StrLess(x, y)
       IN <<m>> \o SortedNames(names \ {m})

\* A JSON value of a metric: a number; an object with "value", "mean" and
\* "unit" members, each there or not; or something float() raises on (a
\* string such as "n/a", a list, null).
JNum(n) == [t |-> "num", value |-> n, mean |-> Absent, unit |-> ""]
JDict(v, m, u) == [t |-> "dict", value |-> v, mean |-> m, unit |-> u]
JOther == [t |-> "other", value |-> Absent, mean |-> Absent, unit |-> ""]

\* baseline_data.get('value', baseline_data.get('mean', 0)) for an object,
\* float(baseline_data) for a number
ValueOf(d) ==
  IF d.t = "dict"
  THEN IF d.value # Absent THEN d.value
       ELSE IF d.mean # Absent THEN d.mean
       ELSE 0
  ELSE d.value

\* baseline_data.get('unit', '') for an object, '' otherwise
UnitOf(d) == IF d.t = "dict" THEN d.unit ELSE ""

\* float(...) raises
Raises(d) == d.t = "other"

\* change_percent, exactly: inf, or the fraction num / den
ChangePercent(b, c) ==
  IF b = 0
  THEN [inf |-> c # 0, num |-> 0, den |-> 1]
  ELSE [inf |-> FALSE, num |-> (c - b) * 100, den |-> b]

\* A comparison that is not strict: change_percent >= threshold
AboveOrEqual(ch, t) ==
  IF ch.inf THEN TRUE
  ELSE IF ch.den > 0 THEN ch.num >= t * ch.den
  ELSE ch.num <= t * ch.den

\* change_percent > threshold
Above(ch, t) ==
  IF ch.inf THEN TRUE
  ELSE IF ch.den > 0 THEN ch.num > t * ch.den
  ELSE ch.num < t * ch.den

\* change_percent < -threshold
Below(ch, t) ==
  IF ch.inf THEN FALSE
  ELSE IF ch.den > 0 THEN ch.num < (0 - t) * ch.den
  ELSE ch.num > (0 - t) * ch.den

\* if is_latency_metric(...): ... elif is_throughput_metric(...): ... else: ...
Judge(name, ch, t) ==
  IF IsLatencyMetric(name)
  THEN [is_regression |-> Above(ch, t), is_improvement |-> ~Above(ch, t) /\ Below(ch, t)]
  ELSE IF IsThroughputMetric(name)
  THEN [is_regression |-> Below(ch, t), is_improvement |-> ~Below(ch, t) /\ Above(ch, t)]
  ELSE [is_regression |-> Above(ch, t), is_improvement |-> FALSE]

\* One iteration of "for metric_name in sorted(common_metrics)": the
\* ComparisonResult appended
CompareOne(name, bd, cd, t) ==
  LET ch == ChangePercent(ValueOf(bd), ValueOf(cd))
      j == Judge(name, ch, t)
  IN [name |-> name, baseline |-> ValueOf(bd), current |-> ValueOf(cd),
      unit |-> UnitOf(bd), change_percent |-> ch,
      is_regression |-> j.is_regression, is_improvement |-> j.is_improvement]

\* A loop over the common metrics that skips the first.
CommonButFirst(b, c) ==
  LET all == SortedNames((DOMAIN b) \cap (DOMAIN c))
  IN IF all = <<>> THEN <<>> ELSE Tail(all)

\* sorted(common_metrics)
Common(b, c) == SortedNames((DOMAIN b) \cap (DOMAIN c))

\* compare_metrics(baseline, current, threshold): it raises, or returns
\* results and has_regression
CompareMetrics(b, c, t) ==
  LET names == Common(b, c)
      res == [i \in 1..Len(names) |-> CompareOne(names[i], b[names[i]], c[names[i]], t)]
  IN IF \E i \in 1..Len(names) : Raises(b[names[i]]) \/ Raises(c[names[i]])
     THEN [raised |-> TRUE, results |-> <<>>, has_regression |-> FALSE]
     ELSE [raised |-> FALSE, results |-> res,
           has_regression |-> \E i \in 1..Len(res) : res[i].is_regression]

\* --threshold: default=3.0
DefaultThreshold == 3

\* The thresholds explored.
Thresholds == {DefaultThreshold}

\* What a metric of the baseline file is.
BaselineValues ==
  {JNum(0), JNum(100), JDict(100, Absent, "ms"), JDict(Absent, Absent, ""),
   JOther}

\* What a metric of the current file is.
CurrentValues ==
  {JNum(0), JNum(96), JNum(97), JNum(100), JNum(103), JNum(104),
   JDict(Absent, 104, ""), JOther}

\* Most metrics of one file.
MaxMetrics == 2

\* The JSON documents with up to MaxMetrics metrics.
Docs(vals) ==
  UNION {[ns -> vals] : ns \in {x \in SUBSET CompareNames : Cardinality(x) <= MaxMetrics}}

\* A file on disk: not there, not JSON, JSON that is not an object, or a
\* JSON object of metrics.
Files(vals) ==
  {[state |-> st, doc |-> <<>>] : st \in {"missing", "badjson", "notdict"}}
  \cup {[state |-> "ok", doc |-> d] : d \in Docs(vals)}

\* Python's exit status: sys.exit(n), or 1 for an exception nobody caught.
NoExit == None
UncaughtExit == 1

CmpIdle ==
  /\ bfile = [state |-> "missing", doc |-> <<>>]
  /\ cfile = [state |-> "missing", doc |-> <<>>]
  /\ threshold = DefaultThreshold
  /\ no_fail = FALSE
  /\ mpc = "idle"
  /\ results = <<>>
  /\ has_regression = FALSE
  /\ exit_code = NoExit

\* ------------------------------------------------------------ build_request

\* f"POST /compute/sum HTTP/1.1" and f"POST /user/register HTTP/1.1"
RequestLine(b) ==
  IF b = "compute"
  THEN <<"P", "O", "S", "T", " ", "/", "c", "o", "m", "p", "u", "t", "e", "/",
    "s", "u", "m", " ", "H", "T", "T", "P", "/", "1", ".", "1">>
  ELSE <<"P", "O", "S", "T", " ", "/", "u", "s", "e", "r", "/", "r", "e", "g",
    "i", "s", "t", "e", "r", " ", "H", "T", "T", "P", "/", "1", ".", "1">>

\* f"Host: {host}:{port}"
HostLine(b) ==
  IF b = "compute"
  THEN <<"H", "o", "s", "t", ":", " ", "1", "2", "7", ".", "0", ".", "0", ".",
    "1", ":", "8", "0", "8", "0">>
  ELSE <<"H", "o", "s", "t", ":", " ", "1", "2", "7", ".", "0", ".", "0", ".",
    "1", ":", "8", "0", "8", "1">>

\* "Connection: keep-alive"
ConnectionLine ==
  <<"C", "o", "n", "n", "e", "c", "t", "i", "o", "n", ":", " ", "k", "e",
    "e", "p", "-", "a", "l", "i", "v", "e">>

\* headers, as (name, value) pairs in the order of the dict
Headers ==
  << << <<"C", "o", "n", "t", "e", "n", "t", "-", "T", "y", "p", "e">>,
        <<"a", "p", "p", "l", "i", "c", "a", "t", "i", "o", "n", "/", "j", "s",
    "o", "n">> >>,
     << <<"A", "c", "c", "e", "p", "t">>,
        <<"a", "p", "p", "l", "i", "c", "a", "t", "i", "o", "n", "/", "j", "s",
    "o", "n">> >>,
     << <<"C", "o", "n", "n", "e", "c", "t", "i", "o", "n">>,
        <<"k", "e", "e", "p", "-", "a", "l", "i", "v", "e">> >> >>

\* for k, v in headers.items(): if k.lower() == "connection": continue;
\* lines.append(f"{k}: {v}")      -- from pair i on
RECURSIVE HeaderLines(_)
HeaderLines(i) ==
  IF i > Len(Headers) THEN <<>>
  ELSE IF Lower(Headers[i][1]) = <<"c", "o", "n", "n", "e", "c", "t", "i", "o", "n">>
  THEN HeaderLines(i + 1)
  ELSE <<Headers[i][1] \o <<":", " ">> \o Headers[i][2]>> \o HeaderLines(i + 1)

\* A length field that is always 0.
ContentLengthZero(payload) ==
  <<"C", "o", "n", "t", "e", "n", "t", "-", "L", "e", "n", "g", "t", "h",
    ":", " ">> \o Digits(0)

\* f"Content-Length: {len(payload)}"
ContentLengthLine(payload) ==
  <<"C", "o", "n", "t", "e", "n", "t", "-", "L", "e", "n", "g", "t", "h",
    ":", " ">> \o Digits(Len(payload))

\* sep.join(lines)
RECURSIVE JoinLines(_, _)
JoinLines(lines, sep) ==
  IF lines = <<>> THEN <<>>
  ELSE IF Len(lines) = 1 THEN lines[1]
  ELSE lines[1] \o sep \o JoinLines(Tail(lines), sep)

\* build_request(payload)
BuildRequest(b, payload) ==
  JoinLines(<<RequestLine(b), HostLine(b), ConnectionLine>> \o HeaderLines(1)
            \o <<ContentLengthLine(payload), <<>>, <<>>>>, CRLF)
  \o payload

\* payloads: json.dumps([float(i + 1) for i in range(size)]) for the sizes 1
\* and 8; valid_payload and invalid_payloads[2] of the validation benchmark
Payloads(b) ==
  IF b = "compute"
  THEN [n \in {"size=1", "size=8"} |->
          IF n = "size=1"
          THEN <<"[", "1", ".", "0", "]">>
          ELSE <<"[", "1", ".", "0", ",", " ", "2", ".", "0", ",", " ", "3", ".", "0",
    ",", " ", "4", ".", "0", ",", " ", "5", ".", "0", ",", " ", "6", ".",
    "0", ",", " ", "7", ".", "0", ",", " ", "8", ".", "0", "]">>]
  ELSE [n \in {"valid", "invalid"} |->
          IF n = "valid"
          THEN <<"{", "\"", "e", "m", "a", "i", "l", "\"", ":", " ", "\"", "a", "@", "b",
    ".", "c", "o", "m", "\"", ",", " ", "\"", "p", "a", "s", "s", "w", "o",
    "r", "d", "\"", ":", " ", "\"", "s", "u", "p", "e", "r", "s", "e", "c",
    "r", "e", "t", "\"", ",", " ", "\"", "a", "g", "e", "\"", ":", " ", "2",
    "7", "}">>
          ELSE <<"{", "\"", "e", "m", "a", "i", "l", "\"", ":", " ", "\"", "m", "i", "s",
    "s", "i", "n", "g", "-", "p", "a", "s", "s", "w", "o", "r", "d", "\"",
    "}">>]

\* request_cache = {size: build_request(payload) for size, payload in
\* payloads.items()}; request_valid, request_invalid
RequestCache(b) ==
  [n \in DOMAIN Payloads(b) |-> BuildRequest(b, Payloads(b)[n])]

ReqIdle ==
  /\ request_cache = <<>>
  /\ rqc = "idle"

\* No request has been sent on the connection.
ConnIdle ==
  /\ nresp = 0
  /\ paired = TRUE

\* main has not started.
ProcIdle ==
  /\ phase = "idle"
  /\ orphans = 0

\* generate_markdown has not been called.
MdIdle ==
  /\ md_results = <<>>
  /\ md_pc = "idle"
  /\ md_i = None
  /\ md_k = 0
  /\ md_out = <<>>

\* update_readme_from_bench's main has not started.
ReadmeIdle ==
  /\ readme = <<>>
  /\ content = <<>>
  /\ bench_lines = <<>>
  /\ latest_lines = <<>>
  /\ upc = "idle"
  /\ uerr = None

\* replace_block has not been called.
BlockIdle ==
  /\ rb_text = <<>>
  /\ rb_pair = "none"
  /\ rb_lines = <<>>
  /\ rb_once = <<>>
  /\ rb_twice = <<>>
  /\ rb_pc = "idle"

AuxIdle == ConnIdle /\ ProcIdle /\ MdIdle /\ ReadmeIdle /\ BlockIdle

ExtIdle == StartIdle /\ PickIdle /\ CmpIdle /\ ReqIdle /\ AuxIdle

\* ------------------------------------------------------------ run_threads

\* A run_threads that goes on with the dictionaries of the call before.
EnterRunKeeping(b, cs) ==
  /\ collect_stats' = cs
  /\ cpc' = "starting"
  /\ nstarted' = 0
  /\ njoined' = 0
  /\ stop_event' = FALSE
  /\ UNCHANGED <<totals, errors, latencies, status_hist>>
  /\ pc' = [w \in AllWorkers |-> "new"]
  /\ socks' = [w \in AllWorkers |-> <<>>]
  /\ idx' = [w \in AllWorkers |-> 0]
  /\ key' = [w \in AllWorkers |-> CHOOSE v \in Variants(b) : TRUE]
  /\ sock' = [w \in AllWorkers |-> NoSock]
  /\ status' = [w \in AllWorkers |-> None]
  /\ tmp' = [w \in AllWorkers |-> 0]
  /\ nconn' = [w \in AllWorkers |-> 0]
  /\ attempts' = 0
  /\ wcount' = [w \in AllWorkers |-> [v \in Variants(b) |-> 0]]
  /\ lastfail' = [w \in AllWorkers |-> NoSock]
  /\ failed' = {}
  /\ malformed' = {}
  /\ writers' = [a \in Accumulators |-> {}]
  /\ borrowed' = [w \in AllWorkers |-> <<>>]

\* The state at entry of run_threads(thread_count, duration_s, cs).
EnterRun(b, cs) ==
  /\ collect_stats' = cs
  /\ cpc' = "starting"
  /\ nstarted' = 0
  /\ njoined' = 0
  /\ stop_event' = FALSE
  /\ totals' = [v \in Variants(b) |-> 0]
  /\ errors' = [v \in Variants(b) |-> 0]
  /\ latencies' = [v \in Variants(b) |-> <<>>]
  /\ status_hist' = [v \in Variants(b) |-> [s \in RecvResults |-> 0]]
  /\ pc' = [w \in AllWorkers |-> "new"]
  /\ socks' = [w \in AllWorkers |-> <<>>]
  /\ idx' = [w \in AllWorkers |-> 0]
  /\ key' = [w \in AllWorkers |-> CHOOSE v \in Variants(b) : TRUE]
  /\ sock' = [w \in AllWorkers |-> NoSock]
  /\ status' = [w \in AllWorkers |-> None]
  /\ tmp' = [w \in AllWorkers |-> 0]
  /\ nconn' = [w \in AllWorkers |-> 0]
  /\ attempts' = 0
  /\ wcount' = [w \in AllWorkers |-> [v \in Variants(b) |-> 0]]
  /\ lastfail' = [w \in AllWorkers |-> NoSock]
  /\ failed' = {}
  /\ malformed' = {}
  /\ writers' = [a \in Accumulators |-> {}]
  /\ borrowed' = [w \in AllWorkers |-> <<>>]

\* The warm-up call run_threads(thread_count, warmup_s, collect_stats=False)
\* of one iteration of "for thread_count in (...)".
RunInit ==
  /\ bench \in Benches
  /\ thread_count \in ThreadCounts
  /\ collect_stats = FALSE
  /\ cpc = "starting"
  /\ nstarted = 0
  /\ njoined = 0
  /\ stop_event = FALSE
  /\ totals = [v \in Variants(bench) |-> 0]
  /\ errors = [v \in Variants(bench) |-> 0]
  /\ latencies = [v \in Variants(bench) |-> <<>>]
  /\ status_hist = [v \in Variants(bench) |-> [s \in RecvResults |-> 0]]
  /\ pc = [w \in AllWorkers |-> "new"]
  /\ socks = [w \in AllWorkers |-> <<>>]
  /\ idx = [w \in AllWorkers |-> 0]
  /\ key = [w \in AllWorkers |-> CHOOSE v \in Variants(bench) : TRUE]
  /\ sock = [w \in AllWorkers |-> NoSock]
  /\ status = [w \in AllWorkers |-> None]
  /\ tmp = [w \in AllWorkers |-> 0]
  /\ nconn = [w \in AllWorkers |-> 0]
  /\ open = {}
  /\ attempts = 0
  /\ wcount = [w \in AllWorkers |-> [v \in Variants(bench) |-> 0]]
  /\ lastfail = [w \in AllWorkers |-> NoSock]
  /\ failed = {}
  /\ malformed = {}
  /\ writers = [a \in Accumulators |-> {}]
  /\ borrowed = [w \in AllWorkers |-> <<>>]
  /\ rxtick = [w \in AllWorkers |-> 0]

Init == RunInit /\ FramerIdle /\ ReportIdle /\ WrkIdle /\ ExtIdle

\* for t in threads: t.start()   -- one thread per step
StartThread ==
  /\ cpc = "starting"
  /\ nstarted < thread_count
  /\ nstarted' = nstarted + 1
  /\ pc' = [pc EXCEPT ![nstarted + 1] = "populate"]
  /\ cpc' = IF nstarted + 1 = thread_count THEN "sleeping" ELSE "starting"
  /\ UNCHANGED <<fvars, offVars, rxtick, bench, thread_count, collect_stats, njoined, stop_event,
                 statVars, socks, idx, key, sock, status, tmp, nconn, open,
                 attempts, histVars>>

\* time.sleep(duration_s) ends; stop_event.set()
SetStop ==
  /\ cpc = "sleeping"
  /\ stop_event' = TRUE
  /\ cpc' = "joining"
  /\ UNCHANGED <<fvars, offVars, rxtick, bench, thread_count, collect_stats, nstarted, njoined,
                 statVars, pc, socks, idx, key, sock, status, tmp, nconn,
                 open, attempts, histVars>>

\* A join that gives up on a thread still running (t.join(timeout)).
JoinTimesOut ==
  /\ cpc = "joining"
  /\ njoined < thread_count
  /\ njoined' = njoined + 1
  /\ UNCHANGED <<fvars, offVars, rxtick, bench, thread_count, collect_stats, cpc,
                 nstarted, stop_event, statVars, pc, socks, idx, key, sock,
                 status, tmp, nconn, open, attempts, histVars>>

\* for t in threads: t.join()   -- returns once thread t has ended
Join ==
  /\ cpc = "joining"
  /\ njoined < thread_count
  /\ pc[njoined + 1] = "exited"
  /\ njoined' = njoined + 1
  /\ UNCHANGED <<fvars, offVars, rxtick, bench, thread_count, collect_stats, cpc, nstarted,
                 stop_event, statVars, pc, socks, idx, key, sock, status,
                 tmp, nconn, open, attempts, histVars>>

\* A run_threads that takes the time and returns without sleeping or joining.
ReturnAtOnce ==
  /\ cpc \in {"sleeping", "joining"}
  /\ cpc' = "returned"
  /\ UNCHANGED <<fvars, offVars, rxtick, bench, thread_count, collect_stats,
                 nstarted, njoined, stop_event, statVars, pc, socks, idx, key,
                 sock, status, tmp, nconn, open, attempts, histVars>>

\* duration = time.perf_counter() - start_ts
\* return totals, latencies, errors, duration, status_hist
Return ==
  /\ cpc = "joining"
  /\ njoined = thread_count
  /\ cpc' = "returned"
  /\ UNCHANGED <<fvars, offVars, rxtick, bench, thread_count, collect_stats, nstarted, njoined,
                 stop_event, statVars, pc, socks, idx, key, sock, status,
                 tmp, nconn, open, attempts, histVars>>

\* The warm-up's return value is dropped; the measurement call
\* run_threads(thread_count, measure_s, collect_stats=True) starts afresh.
MeasurePass ==
  /\ cpc = "returned"
  /\ ~collect_stats
  /\ EnterRun(bench, TRUE)
  /\ UNCHANGED <<fvars, offVars, rxtick, bench, thread_count, open>>

\* ------------------------------------------------------------ worker

\* socks = [] ; for _ in range(connections_per_thread): try make_socket()
Populate(w) ==
  /\ pc[w] = "populate"
  /\ \E k \in 0..Min(ConnectionsPerThread(bench, thread_count), PoolCap) :
       /\ socks' = [socks EXCEPT ![w] = [i \in 1..k |-> MakeSocket(w, i)]]
       /\ nconn' = [nconn EXCEPT ![w] = k]
       /\ open' = open \cup {MakeSocket(w, i) : i \in 1..k}
  /\ idx' = [idx EXCEPT ![w] = 0]
  /\ pc' = [pc EXCEPT ![w] = "top"]
  /\ UNCHANGED <<fvars, offVars, rxtick, bench, thread_count, collect_stats, coordVars, stop_event,
                 statVars, key, sock, status, tmp, attempts, histVars>>

\* while not stop_event.is_set(): leave the loop
LoopExit(w) ==
  /\ pc[w] = "top"
  /\ stop_event
  /\ pc' = [pc EXCEPT ![w] = "cleanup"]
  /\ lastfail' = [lastfail EXCEPT ![w] = NoSock]
  /\ UNCHANGED <<fvars, offVars, rxtick, bench, thread_count, collect_stats, coordVars, stop_event,
                 statVars, socks, idx, key, sock, status, tmp, nconn, open,
                 attempts, wcount, failed, malformed, writers, borrowed>>

\* while not stop_event.is_set(): pick the variant and borrow a socket
LoopTop(w) ==
  /\ pc[w] = "top"
  /\ ~stop_event
  /\ attempts < Budget
  /\ attempts' = attempts + 1
  /\ \E v \in Variants(bench) : key' = [key EXCEPT ![w] = v]
  /\ IF socks[w] # <<>>
     THEN /\ sock' = [sock EXCEPT ![w] = Borrow(socks[w], idx[w])]
          /\ idx' = [idx EXCEPT ![w] = idx[w] + 1]
          /\ borrowed' = [borrowed EXCEPT
                            ![w] = Append(@, Borrow(socks[w], idx[w]))]
     ELSE /\ sock' = [sock EXCEPT ![w] = NoSock]
          /\ idx' = idx
          /\ UNCHANGED borrowed
  /\ pc' = [pc EXCEPT ![w] = "try"]
  /\ UNCHANGED <<fvars, offVars, rxtick, bench, thread_count, collect_stats, coordVars, stop_event,
                 statVars, socks, status, tmp, nconn, open, wcount, lastfail,
                 failed, malformed, writers>>

\* if not sock: make_socket() raises; the handler begins errors[size] += 1
ConnectFails(w) ==
  /\ pc[w] = "try"
  /\ NeedsSocket(sock[w])
  /\ tmp' = [tmp EXCEPT ![w] = errors[key[w]]]
  /\ pc' = [pc EXCEPT ![w] = "exc_wr"]
  /\ lastfail' = [lastfail EXCEPT ![w] = NoSock]
  /\ UNCHANGED <<fvars, offVars, rxtick, bench, thread_count, collect_stats, coordVars, stop_event,
                 statVars, socks, idx, key, sock, status, nconn, open,
                 attempts, wcount, failed, malformed, writers, borrowed>>

\* if not sock: sock = make_socket(); socks.append(sock)
\* then sock.sendall(req_bytes) and read_response(sock): one of them raises
\* and the handler begins errors[size] += 1, or read_response returns a
\* status or None and totals[size] += 1 begins
SendRecv(w) ==
  /\ pc[w] = "try"
  /\ LET fresh == MakeSocket(w, nconn[w] + 1)
         s == IF NeedsSocket(sock[w]) THEN fresh ELSE sock[w]
     IN /\ sock' = [sock EXCEPT ![w] = s]
        /\ IF NeedsSocket(sock[w])
           THEN /\ socks' = [socks EXCEPT ![w] = Append(socks[w], fresh)]
                /\ nconn' = [nconn EXCEPT ![w] = nconn[w] + 1]
                /\ open' = open \cup {fresh}
                /\ borrowed' = [borrowed EXCEPT ![w] = <<fresh>>]
           ELSE UNCHANGED <<socks, nconn, open, borrowed>>
        /\ \/ /\ pc' = [pc EXCEPT ![w] = "exc_wr"]
              /\ tmp' = [tmp EXCEPT ![w] = errors[key[w]]]
              /\ failed' = failed \cup {s}
              /\ UNCHANGED <<status, malformed>>
           \/ \E st \in RecvResults :
                /\ status' = [status EXCEPT ![w] = st]
                /\ tmp' = [tmp EXCEPT ![w] = totals[key[w]]]
                /\ malformed' = IF st = None THEN malformed \cup {s}
                                ELSE malformed
                /\ pc' = [pc EXCEPT ![w] = "tot_wr"]
                /\ UNCHANGED failed
  /\ lastfail' = [lastfail EXCEPT ![w] = NoSock]
  /\ UNCHANGED <<fvars, offVars, rxtick, bench, thread_count, collect_stats, coordVars, stop_event,
                 statVars, idx, key, attempts, wcount, writers>>

\* totals[size] += 1   -- the store
TotalsWrite(w) ==
  /\ pc[w] = "tot_wr"
  /\ totals' = [totals EXCEPT ![key[w]] = tmp[w] + 1]
  /\ wcount' = [wcount EXCEPT ![w][key[w]] = @ + 1]
  /\ writers' = [writers EXCEPT !["totals"] = @ \cup {w}]
  /\ pc' = [pc EXCEPT ![w] = "hist_rd"]
  /\ UNCHANGED <<fvars, offVars, rxtick, bench, thread_count, collect_stats, coordVars, stop_event,
                 errors, latencies, status_hist, socks, idx, key, sock,
                 status, tmp, nconn, open, attempts, lastfail, failed,
                 malformed, borrowed>>

\* status_hist[size].get(status, 0)
HistRead(w) ==
  /\ pc[w] = "hist_rd"
  /\ tmp' = [tmp EXCEPT ![w] = status_hist[key[w]][status[w]]]
  /\ pc' = [pc EXCEPT ![w] = "hist_wr"]
  /\ UNCHANGED <<fvars, offVars, rxtick, bench, thread_count, collect_stats, coordVars, stop_event,
                 statVars, socks, idx, key, sock, status, nconn, open,
                 attempts, histVars>>

\* status_hist[size][status] = ... + 1
HistWrite(w) ==
  /\ pc[w] = "hist_wr"
  /\ status_hist' = [status_hist EXCEPT ![key[w]][status[w]] = tmp[w] + 1]
  /\ writers' = [writers EXCEPT !["status_hist"] = @ \cup {w}]
  /\ pc' = [pc EXCEPT ![w] = "classify"]
  /\ UNCHANGED <<fvars, offVars, rxtick, bench, thread_count, collect_stats, coordVars, stop_event,
                 totals, errors, latencies, socks, idx, key, sock, status,
                 tmp, nconn, open, attempts, wcount, lastfail, failed,
                 malformed, borrowed>>

\* the if / elif after the histogram update: latencies[size].append(...),
\* or errors[size] += 1 begins, or neither
ClassifyStep(w) ==
  /\ pc[w] = "classify"
  /\ LET c == Classify(bench, collect_stats, key[w], status[w])
     IN CASE c = "lat" ->
               /\ \E l \in LatVals :
                    latencies' = [latencies EXCEPT ![key[w]] = Append(@, l)]
               /\ writers' = [writers EXCEPT !["latencies"] = @ \cup {w}]
               /\ pc' = [pc EXCEPT ![w] = "top"]
               /\ EndIteration(w)
          [] c = "err" ->
               /\ tmp' = [tmp EXCEPT ![w] = errors[key[w]]]
               /\ pc' = [pc EXCEPT ![w] = "err_wr"]
               /\ UNCHANGED <<latencies, writers, key, sock, status>>
          [] OTHER ->
               /\ pc' = [pc EXCEPT ![w] = "top"]
               /\ EndIteration(w)
               /\ UNCHANGED <<latencies, writers>>
  /\ UNCHANGED <<fvars, offVars, rxtick, bench, thread_count, collect_stats, coordVars, stop_event,
                 totals, errors, status_hist, socks, idx, nconn, open,
                 attempts, wcount, lastfail, failed, malformed, borrowed>>

\* errors[size] += 1 of the if / elif   -- the store
ErrWrite(w) ==
  /\ pc[w] = "err_wr"
  /\ errors' = [errors EXCEPT ![key[w]] = tmp[w] + 1]
  /\ writers' = [writers EXCEPT !["errors"] = @ \cup {w}]
  /\ pc' = [pc EXCEPT ![w] = "top"]
  /\ EndIteration(w)
  /\ UNCHANGED <<fvars, offVars, rxtick, bench, thread_count, collect_stats, coordVars, stop_event,
                 totals, latencies, status_hist, socks, idx, nconn, open,
                 attempts, wcount, lastfail, failed, malformed, borrowed>>

\* except Exception: errors[size] += 1 (the store), then
\* try: if sock: sock.close(); socks.remove(sock)  except: pass ; continue
ExcWrite(w) ==
  /\ pc[w] = "exc_wr"
  /\ errors' = [errors EXCEPT ![key[w]] = tmp[w] + 1]
  /\ writers' = [writers EXCEPT !["errors"] = @ \cup {w}]
  /\ IF sock[w] # NoSock
     THEN /\ open' = open \ {sock[w]}
          /\ \E r \in SockCloseResults :
               socks' = [socks EXCEPT
                           ![w] = IF r = "ok" THEN Remove(@, sock[w]) ELSE @]
     ELSE UNCHANGED <<open, socks>>
  /\ lastfail' = [lastfail EXCEPT ![w] = sock[w]]
  /\ borrowed' = [borrowed EXCEPT ![w] = <<>>]
  /\ pc' = [pc EXCEPT ![w] = AfterExcept]
  /\ EndIteration(w)
  /\ UNCHANGED <<fvars, offVars, rxtick, bench, thread_count, collect_stats, coordVars, stop_event,
                 totals, latencies, status_hist, idx, nconn, attempts, wcount,
                 failed, malformed>>

\* A worker that ends without closing what is left in socks.
CleanupKeepsOpen(w) ==
  /\ pc[w] = "cleanup"
  /\ pc' = [pc EXCEPT ![w] = "exited"]
  /\ UNCHANGED <<fvars, offVars, rxtick, bench, thread_count, collect_stats, coordVars, stop_event,
                 statVars, socks, idx, key, sock, status, tmp, nconn, open,
                 attempts, histVars>>

\* for s in socks: s.close()   -- and the thread ends
Cleanup(w) ==
  /\ pc[w] = "cleanup"
  /\ open' = open \ Range(socks[w])
  /\ pc' = [pc EXCEPT ![w] = "exited"]
  /\ UNCHANGED <<fvars, offVars, rxtick, bench, thread_count, collect_stats, coordVars, stop_event,
                 statVars, socks, idx, key, sock, status, tmp, nconn,
                 attempts, histVars>>

WorkerStep(w) ==
  \/ Populate(w)
  \/ LoopExit(w)
  \/ LoopTop(w)
  \/ ConnectFails(w)
  \/ SendRecv(w)
  \/ TotalsWrite(w)
  \/ HistRead(w)
  \/ HistWrite(w)
  \/ ClassifyStep(w)
  \/ ErrWrite(w)
  \/ ExcWrite(w)
  \/ Cleanup(w)

Next ==
  \/ StartThread
  \/ SetStop
  \/ Join
  \/ Return
  \/ MeasurePass
  \/ \E w \in Workers : WorkerStep(w)

Spec == Init /\ [][Next]_vars

\* One worker alone: run_threads(1, ...).
InitSolo == Init /\ thread_count = 1

SpecSolo == InitSolo /\ [][Next]_vars

\* ------------------------------------------------------------ read_response, run

\* What one recv that returns the next n bytes does to the history.
SeenAfter(n) ==
  LET hdr == expect.hdr
      inTerm == hdr # 0 /\ pos + n >= hdr /\ pos + n < hdr + 3
      withBody == /\ hdr # 0
                  /\ fpc = "headers"
                  /\ pos < hdr + 3
                  /\ pos + n > hdr + 3
  IN seen \cup (IF inTerm THEN {"cut in terminator"} ELSE {})
          \cup (IF withBody THEN {"body with headers"} ELSE {})

\* while b"\r\n\r\n" not in data: chunk = sock.recv(4096); data += chunk
RecvHeader ==
  /\ fpc = "headers"
  /\ pos < Len(resp)
  /\ \E n \in 1..Min(HeaderRecvSize, Len(resp) - pos) :
       /\ data' = data \o SubSeq(resp, pos + 1, pos + n)
       /\ pos' = pos + n
       /\ nrecv' = Min(nrecv + 1, MaxRecvCounted)
       /\ seen' = SeenAfter(n)
  /\ fpc' = IF Contains(data', Terminator) THEN "parse" ELSE "headers"
  /\ UNCHANGED <<resp, expect, rest, fstatus, to_read, result>>

\* header, rest = data.split(b"\r\n\r\n", 1) ... to_read = max(...), with
\* the three "return None, None", and "return status, rest" when the body
\* loop has nothing to read
ParseStep ==
  /\ fpc = "parse"
  /\ \E h \in {ParseHead(data)} :
       IF ~h.ok
       THEN /\ fpc' = "returned"
            /\ result' = <<None, NoBody>>
            /\ UNCHANGED <<rest, fstatus, to_read>>
       ELSE /\ rest' = h.rest
            /\ fstatus' = h.status
            /\ to_read' = h.to_read
            /\ IF h.to_read > 0
               THEN fpc' = "body" /\ UNCHANGED result
               ELSE /\ fpc' = "returned"
                    /\ result' = <<h.status, h.rest>>
  /\ UNCHANGED <<resp, expect, pos, data, nrecv, seen>>

\* A header loop that leaves on an empty chunk the way the body loop does
\* ("break"): data.split(...) then yields one part and the unpacking raises.
HeaderEOFBreaks ==
  /\ fpc = "headers"
  /\ pos < Len(resp)
  /\ fpc' = "raised"
  /\ seen' = seen \cup {"closed early"}
  /\ UNCHANGED <<resp, expect, pos, data, rest, fstatus, to_read, result, nrecv>>

\* chunk = sock.recv(4096) is empty (the peer closed after pos bytes):
\* return None, None
HeaderEOF ==
  /\ fpc = "headers"
  /\ pos < Len(resp)
  /\ fpc' = "returned"
  /\ result' = <<None, NoBody>>
  /\ seen' = seen \cup {"closed early"}
  /\ UNCHANGED <<resp, expect, pos, data, rest, fstatus, to_read, nrecv>>

\* while to_read > 0: chunk = sock.recv(to_read); rest += chunk; ...
\* and "return status, rest" once to_read is 0
RecvBody ==
  /\ fpc = "body"
  /\ pos < Len(resp)
  /\ \E n \in 1..Min(to_read, Len(resp) - pos) :
       /\ rest' = rest \o SubSeq(resp, pos + 1, pos + n)
       /\ pos' = pos + n
       /\ to_read' = to_read - n
       /\ nrecv' = Min(nrecv + 1, MaxRecvCounted)
       /\ seen' = SeenAfter(n)
       /\ IF to_read - n > 0
          THEN UNCHANGED <<fpc, result>>
          ELSE /\ fpc' = "returned"
               /\ result' = <<fstatus, rest \o SubSeq(resp, pos + 1, pos + n)>>
  /\ UNCHANGED <<resp, expect, data, fstatus>>

\* chunk = sock.recv(to_read) is empty (the peer closed after pos bytes):
\* break, then return status, rest
BodyEOF ==
  /\ fpc = "body"
  /\ pos < Len(resp)
  /\ fpc' = "returned"
  /\ result' = <<fstatus, rest>>
  /\ seen' = seen \cup {"closed early"}
  /\ UNCHANGED <<resp, expect, pos, data, rest, fstatus, to_read, nrecv>>

\* sock.recv raises (socket.timeout after 5 s, a reset): read_response raises
RecvRaises ==
  /\ fpc \in {"headers", "body"}
  /\ fpc' = "raised"
  /\ UNCHANGED <<resp, expect, pos, data, rest, fstatus, to_read, result,
                 nrecv, seen>>

\* read_response(sock) is called on a socket whose peer sends resp, or a
\* prefix of it.
InitFramer ==
  /\ RunInit
  /\ bench = "compute"
  /\ thread_count = 1
  /\ \/ \E st \in FramerStatuses, lay \in Layouts, body \in Bodies :
          /\ resp = WellFormed(st, lay[1], lay[2], lay[3], body)
          /\ expect = [wf |-> TRUE, status |-> st, body |-> body,
                       hdr |-> Find(resp, Terminator)]
     \/ \E line \in BadStatusLines :
          /\ resp = Malformed(line)
          /\ expect = [wf |-> FALSE, hdr |-> Find(resp, Terminator)]
  /\ pos = 0
  /\ fpc = "headers"
  /\ data = <<>>
  /\ rest = <<>>
  /\ fstatus = None
  /\ to_read = 0
  /\ result = <<None, NoBody>>
  /\ nrecv = 0
  /\ seen = {}
  /\ ReportIdle
  /\ WrkIdle
  /\ ExtIdle

runVars == <<bench, thread_count, collect_stats, cpc, nstarted, njoined,
             stop_event, totals, errors, latencies, status_hist, pc, socks,
             idx, key, sock, status, tmp, nconn, open, attempts, wcount,
             lastfail, failed, malformed, writers, borrowed, rxtick>>

NextFramer ==
  \/ RecvHeader /\ UNCHANGED <<runVars, offVars>>
  \/ ParseStep /\ UNCHANGED <<runVars, offVars>>
  \/ HeaderEOF /\ UNCHANGED <<runVars, offVars>>
  \/ RecvBody /\ UNCHANGED <<runVars, offVars>>
  \/ BodyEOF /\ UNCHANGED <<runVars, offVars>>
  \/ RecvRaises /\ UNCHANGED <<runVars, offVars>>

SpecFramer == InitFramer /\ [][NextFramer]_vars

\* ------------------------------------------------------------ properties

\* Positions inside "while not stop_event.is_set()".
InLoop == {"top", "try", "tot_wr", "hist_rd", "hist_wr", "classify",
           "err_wr", "exc_wr"}

\* The responses workers 1..n counted for variant v.
RECURSIVE SumCounted(_, _)
SumCounted(v, n) == IF n = 0 THEN 0 ELSE wcount[n][v] + SumCounted(v, n - 1)

\* C1: when run_threads returns, the attempt total of every variant is the
\* sum over the workers of the responses each of them counted for it (no
\* increment is lost or applied twice).
TotalsEqualSumOfWorkerCounts ==
  cpc = "returned" =>
    \A v \in Variants(bench) : totals[v] = SumCounted(v, thread_count)

\* C2: every statistics accumulator is written by one worker only, the one
\* that owns it, for as long as the workers run.
AccumulatorsWrittenByOwnerOnly ==
  \A a \in Accumulators : Cardinality(writers[a]) <= 1

\* C3: every open connection is in the pool of exactly one worker, the
\* connection a worker sends on, receives from or closes is one of its own
\* pool, and no two workers use the same connection.
ConnectionOwnedByOneWorker ==
  /\ \A c \in open :
       \E w \in Workers :
         /\ c \in Range(socks[w])
         /\ \A u \in Workers \ {w} : c \notin Range(socks[u])
  /\ \A w \in Workers :
       (pc[w] \in InLoop /\ sock[w] # NoSock) =>
         /\ sock[w] \in Range(socks[w])
         /\ \A u \in Workers \ {w} :
              sock[u] # sock[w] /\ sock[w] \notin Range(socks[u])

\* Two workers are in the middle of an exchange, each on a connection.
TwoWorkersExchanging ==
  \E w \in Workers, u \in Workers :
    /\ w # u
    /\ pc[w] = "tot_wr" /\ pc[u] = "tot_wr"
    /\ sock[w] \in open /\ sock[u] \in open

\* A worker's step leaves the loop only from its top, with the stop flag set.
LeavesLoopOnlyOnStop(w) ==
  (pc[w] \in InLoop /\ pc'[w] \notin InLoop) => (pc[w] = "top" /\ stop_event)

\* The step that ends the except handler goes back to the top of the loop.
FailureStaysInLoop(w) ==
  (pc[w] = "exc_wr" /\ pc'[w] # "exc_wr") => pc'[w] = "top"

\* The step that ends the except handler leaves the error count of the
\* variant attempted one higher, and the other counts as they were.
FailureAddsOneError(w) ==
  (pc[w] = "exc_wr" /\ pc'[w] # "exc_wr") =>
    errors' = [errors EXCEPT ![key[w]] = @ + 1]

\* C4: a connect, send or receive failure never makes a worker leave its
\* loop: the worker adds exactly one to the error count of the variant it
\* was attempting and goes on to the next iteration, and a worker leaves the
\* loop only by finding the stop flag set at the top of an iteration.
FailureNeverEndsLoop ==
  [][\A w \in AllWorkers :
       /\ LeavesLoopOnlyOnStop(w)
       /\ FailureStaysInLoop(w)
       /\ FailureAddsOneError(w)]_vars

\* C5: when a send or receive on a pooled connection fails, the connection
\* is closed and removed from the worker's pool, no later attempt selects
\* it, and the failure raises the variant's error count by exactly one.
FailedConnectionDiscardedAndCounted ==
  [][\A w \in AllWorkers :
       /\ (pc[w] = "exc_wr" /\ pc'[w] # "exc_wr" /\ sock[w] # NoSock) =>
            /\ sock[w] \notin open'
            /\ sock[w] \notin Range(socks'[w])
            /\ FailureAddsOneError(w)
       /\ (pc[w] = "top" /\ pc'[w] = "try") => sock'[w] \notin failed]_vars

MalformedConnectionNeverReused ==
  \A w \in AllWorkers :
    /\ pc[w] = "top" => Range(socks[w]) \cap malformed = {}
    /\ pc[w] = "try" => sock[w] \notin malformed

\* The accepted-status predicate of a variant.
Accepted(b, k, st) ==
  IF b = "compute" \/ k = "valid" THEN st = 200 ELSE st \in {400, 422}

\* What the steps of worker w that classify its attempt do to the lists.
ClassifiedOnce(w) ==
  /\ (pc[w] = "classify" /\ pc'[w] # "classify"
        /\ Accepted(bench, key[w], status[w])) =>
       /\ pc'[w] = "top"
       /\ errors' = errors
       /\ \E l \in LatVals :
            latencies' = [latencies EXCEPT ![key[w]] = Append(@, l)]
  /\ (pc[w] = "classify" /\ pc'[w] # "classify"
        /\ ~Accepted(bench, key[w], status[w])) =>
       /\ pc'[w] = "err_wr"
       /\ latencies' = latencies
  /\ (pc[w] \in {"err_wr", "exc_wr"} /\ pc'[w] # pc[w]) =>
       /\ pc'[w] = "top"
       /\ latencies' = latencies
       /\ errors' = [errors EXCEPT ![key[w]] = @ + 1]
  /\ (pc[w] \in InLoop \ {"top"} /\ pc'[w] = "top") =>
       pc[w] \in {"classify", "err_wr", "exc_wr"}

\* C8: in a measurement pass every attempt is classified exactly once: a
\* status the variant accepts (200 for compute and valid, 400 or 422 for
\* invalid) appends one latency and leaves the error count alone, anything
\* else raises the error count by exactly one and appends nothing.
AttemptClassifiedExactlyOnce ==
  [][collect_stats => \A w \in AllWorkers : ClassifiedOnce(w)]_vars

\* C9: after a measurement pass the attempt count of every variant is the
\* number of its latencies plus its error count.
AttemptCountIsLatenciesPlusErrors ==
  (cpc = "returned" /\ collect_stats) =>
    \A v \in Variants(bench) : totals[v] = Len(latencies[v]) + errors[v]

\* C10: for a well-formed response whose bytes all arrive, however they are
\* cut into chunks, read_response returns its status and its body of exactly
\* Content-Length bytes, and never waits for bytes the response does not hold.
SplitInvariance ==
  expect.wf =>
    /\ (fpc = "returned" /\ "closed early" \notin seen) =>
         result = <<expect.status, expect.body>>
    /\ fpc = "body" => (to_read = Len(resp) - pos /\ pos < Len(resp))

\* "hello world" with Content-Length: 11 came in three chunks, one cut
\* inside the header terminator, one carrying body bytes with it.
HelloWorldInThreeChunks ==
  /\ fpc = "returned"
  /\ expect.wf
  /\ expect.body = <<"h", "e", "l", "l", "o", " ", "w", "o", "r", "l", "d">>
  /\ result = <<200, expect.body>>
  /\ nrecv = 3
  /\ seen = {"cut in terminator", "body with headers"}

\* The peer closed before the whole end-of-headers marker was received.
ClosedInHeaders == "closed early" \in seen /\ pos < expect.hdr + 3

\* The peer closed after the headers, before the whole declared body.
ClosedInBody == "closed early" \in seen /\ pos >= expect.hdr + 3

\* C11: read_response returns (None, None), and does not raise, whenever the
\* stream closes before the end-of-headers marker has been received or the
\* status line has fewer than two whitespace-separated tokens.
MalformedHeadReported ==
  /\ ClosedInHeaders => (fpc = "returned" /\ result = <<None, NoBody>>)
  /\ (resp \in {Malformed(<<>>), Malformed(HTTP11)}
        /\ pos >= expect.hdr + 3 /\ fpc # "parse") =>
       (fpc = "returned" /\ result = <<None, NoBody>>)

\* A status line of one token was read in full and answered with (None, None).
OneTokenStatusLineRead ==
  /\ resp = Malformed(HTTP11)
  /\ pos = Len(resp)
  /\ fpc = "returned"
  /\ result = <<None, NoBody>>
  /\ "closed early" \notin seen

\* C12: when the stream closes after the headers and before the declared
\* Content-Length of body bytes has arrived, read_response returns
\* (None, None): the truncated response is never returned with its status.
TruncatedBodyReported ==
  (expect.wf /\ fpc = "returned" /\ ClosedInBody) =>
    result = <<None, NoBody>>

\* ------------------------------------------------------------ pct, run

\* pct(values, p) is called.
PctCall ==
  /\ rpc = "start"
  /\ pct_result' = Pct(values, pcent)
  /\ rpc' = "called"
  /\ UNCHANGED <<values, pcent, out>>

\* if latencies[size]: the three percentile entries are written.
EmitPercentiles ==
  /\ rpc \in {"start", "called"}
  /\ out' = PercentileEntries(values)
  /\ rpc' = "emitted"
  /\ UNCHANGED <<values, pcent, pct_result>>

\* One variant's latency list reaches the percentile estimator.
InitPct ==
  /\ RunInit
  /\ FramerIdle
  /\ WrkIdle
  /\ ExtIdle
  /\ bench = "compute"
  /\ thread_count = 1
  /\ values \in SampleLists
  /\ pcent \in Percentiles
  /\ pct_result = None
  /\ out = {}
  /\ rpc = "start"

NextPct ==
  \/ PctCall /\ UNCHANGED <<runVars, fvars, wrkVars, extVars>>
  \/ EmitPercentiles /\ UNCHANGED <<runVars, fvars, wrkVars, extVars>>

SpecPct == InitPct /\ [][NextPct]_vars

\* How many samples of vals satisfy  x < r  (strict) or  x <= r.
CountBelow(vals, r, strict) ==
  Cardinality({i \in 1..Len(vals) : IF strict THEN vals[i] < r ELSE vals[i] <= r})

\* The rank the claim names, counted from 0.
NearestRank(n, p) ==
  LET f == CHOOSE k \in 0..(n * p) : 100 * k <= n * p /\ n * p < 100 * (k + 1)
  IN IF f > n - 1 THEN n - 1 ELSE f

\* C13: for a non-empty list of n samples pct returns the sample of rank
\* min(max(floor(n*p/100), 0), n-1) in ascending order, one of the samples
\* themselves; p = 100 gives the maximum; on 10, 20, 30, 40, 50 p50 is 30
\* and p99 is 50.
PctIsNearestRank ==
  (rpc = "called" /\ values # <<>>) =>
    LET k == NearestRank(Len(values), pcent)
    IN /\ \E i \in 1..Len(values) : values[i] = pct_result
       /\ CountBelow(values, pct_result, TRUE) <= k
       /\ CountBelow(values, pct_result, FALSE) >= k + 1
       /\ pcent = 100 => \A i \in 1..Len(values) : values[i] <= pct_result
       /\ (values = <<10, 20, 30, 40, 50>> /\ pcent = 50) => pct_result = 30
       /\ (values = <<10, 20, 30, 40, 50>> /\ pcent = 99) => pct_result = 50

\* pct was applied to an unsorted list of distinct samples and returned the
\* middle one.
MedianOfUnsorted ==
  /\ rpc = "called"
  /\ values = <<30, 10, 20>>
  /\ pcent = 50
  /\ pct_result = 20

\* C14: pct of an empty list is None; the p50, p95 and p99 entries of a
\* variant are written exactly when it has a latency, and none of them is
\* ever 0 or None.
PercentilesOnlyWithData ==
  /\ (rpc = "called" /\ values = <<>>) => pct_result = None
  /\ rpc = "emitted" =>
       /\ {e[1] : e \in out} = IF values = <<>> THEN {} ELSE {50, 95, 99}
       /\ \A e \in out : e[2] # 0 /\ e[2] # None
       /\ \A e \in out : \E i \in 1..Len(values) : values[i] = e[2]

\* The emission ran for a variant without latencies and wrote nothing.
NothingEmittedForEmpty ==
  /\ rpc = "emitted"
  /\ values = <<>>
  /\ out = {}

\* ------------------------------------------------------------ shutdown

\* C15: an attempt that has passed the stop check goes on to record its
\* outcome whatever the stop flag does, run_threads returns only when every
\* worker has ended, and nothing is recorded after it has returned.
StartedAttemptIsRecorded ==
  [][/\ \A w \in AllWorkers :
          /\ (pc[w] = "try" /\ pc'[w] # "try") => pc'[w] \in {"tot_wr", "exc_wr"}
          /\ (pc[w] \in InLoop \ {"top"}) => pc'[w] \in InLoop
     /\ cpc' = "returned" => \A w \in Workers : pc'[w] = "exited"
     /\ (cpc = "returned" /\ cpc' = "returned") =>
          UNCHANGED <<totals, errors, latencies, status_hist>>]_vars

\* The stop flag is set while a worker is in the middle of an attempt.
StopDuringAttempt ==
  /\ stop_event
  /\ cpc = "joining"
  /\ \E w \in Workers : pc[w] = "try" /\ sock[w] # NoSock

\* C16: once the stop flag is set no worker passes the stop check again: a
\* worker finishes the attempt it is in, also through the except handler,
\* comes back to the check, leaves the loop and starts nothing more.
NoAttemptAfterStop ==
  [][\A w \in AllWorkers :
       /\ (pc'[w] = "try" /\ pc[w] # "try") => (pc[w] = "top" /\ ~stop_event)
       /\ (stop_event /\ pc[w] = "top" /\ pc'[w] # "top") => pc'[w] = "cleanup"
       /\ (stop_event /\ pc[w] \in {"cleanup", "exited"} /\ stop_event') =>
            pc'[w] \in {"cleanup", "exited"}
       /\ (stop_event /\ ~stop_event') => cpc = "returned"]_vars

\* The stop flag is set while a worker is in the except handler.
StopDuringHandler ==
  /\ stop_event
  /\ \E w \in Workers : pc[w] = "exc_wr"

\* C18: the measurement pass starts only when the warm-up call has returned,
\* once, with every counter at 0 and every latency list empty, and what it
\* counts are outcomes of its own workers only.
WarmupIsDiscarded ==
  [][/\ (collect_stats' /\ ~collect_stats) =>
          /\ cpc = "returned" /\ cpc' = "starting"
          /\ \A v \in Variants(bench) :
               /\ totals'[v] = 0
               /\ errors'[v] = 0
               /\ latencies'[v] = <<>>
               /\ \A s \in RecvResults : status_hist'[v][s] = 0
     /\ collect_stats => collect_stats'
     /\ collect_stats =>
          \A v \in Variants(bench) : totals[v] <= SumCounted(v, thread_count)]_vars

\* The warm-up call has returned with attempts, errors and statuses counted.
WarmupCounted ==
  /\ ~collect_stats
  /\ cpc = "returned"
  /\ \E v \in Variants(bench) :
       /\ totals[v] > 0
       /\ errors[v] > 0
       /\ status_hist[v][500] > 0

\* The interval timed by start_ts and duration: from before the first
\* t.start() to after the last t.join().
Timed == cpc \in {"starting", "sleeping", "joining"}

\* C19: the timed interval starts before the first worker is started and
\* ends after the last one is joined: every attempt begins and is counted
\* inside it, and it holds the whole sleep of the requested duration.
AttemptsInsideTimedInterval ==
  [][/\ \A w \in AllWorkers : pc'[w] # pc[w] => (Timed \/ cpc' = "starting")
     /\ (totals' # totals \/ errors' # errors \/ latencies' # latencies) =>
          (Timed \/ cpc' = "starting")
     /\ (Timed /\ ~Timed') =>
          /\ stop_event
          /\ njoined = thread_count
          /\ \A w \in Workers : pc[w] = "exited"
     /\ (cpc = "starting" /\ nstarted = 0) =>
          \A w \in AllWorkers : pc[w] = "new"]_vars

\* The measurement call returns with an attempt counted.
TimedRunReturned ==
  /\ cpc = "returned"
  /\ collect_stats
  /\ \E v \in Variants(bench) : totals[v] > 0

\* ------------------------------------------------------------ termination

\* read_response's header loop: recv returns a chunk and the end-of-headers
\* marker is still not in data; the loop goes round.
Trickle(w) ==
  /\ pc[w] = "try"
  /\ sock[w] # NoSock
  /\ rxtick' = [rxtick EXCEPT ![w] = 1 - @]
  /\ UNCHANGED <<fvars, offVars, bench, thread_count, collect_stats, coordVars,
                 stop_event, statVars, pc, socks, idx, key, sock, status, tmp,
                 nconn, open, attempts, histVars>>

WorkerStepLive(w) == WorkerStep(w) \/ Trickle(w)

Coordinator == StartThread \/ SetStop \/ Join \/ Return \/ MeasurePass

NextLive ==
  \/ StartThread
  \/ SetStop
  \/ Join
  \/ Return
  \/ MeasurePass
  \/ \E w \in Workers : WorkerStep(w)
  \/ \E w \in Workers : Trickle(w)

\* Every thread goes on running: the caller of run_threads and each worker
\* take their next step; every socket operation returns or raises.
Fairness ==
  /\ WF_vars(Coordinator)
  /\ \A w \in AllWorkers : WF_vars(WorkerStepLive(w))

\* run_threads(1, ...) of the compute benchmark against any target.
InitLive == Init /\ thread_count = 1 /\ bench = "compute"

SpecLive == InitLive /\ [][NextLive]_vars /\ Fairness

\* C17: after the stop flag is set run_threads eventually returns (every
\* worker has left its loop by then), whatever the target sends.
StopLeadsToReturn == stop_event ~> (cpc = "returned")

\* ------------------------------------------------------------ wrk, run

\* if self.wrk_available() and FORCE_LEGACY_CLIENT != "1": start_server
WrkBegin ==
  /\ wpc = "begin"
  /\ \E use_wrk \in BOOLEAN, started \in BOOLEAN :
       wpc' = IF ~use_wrk THEN "fallback"
              ELSE IF started THEN "scenarios" ELSE "done"
  /\ UNCHANGED <<scen, wrk_ok, wresults, legacy, wouts>>

\* one iteration of "for size in sizes" / "for label, bodies, weights in scenarios"
WrkScenario ==
  /\ wpc = "scenarios"
  /\ scen <= NumScenarios
  /\ \E o \in WrkOutputs :
       /\ wouts' = Append(wouts, o)
       /\ IF ~o.out
          THEN wrk_ok' = FALSE /\ UNCHANGED wresults
          ELSE /\ wrk_ok' = (wrk_ok /\ ~WrkCheckFails(o))
               /\ wresults' = wresults \cup {<<scen, m>> : m \in MetricNames(o)}
  /\ scen' = scen + 1
  /\ UNCHANGED <<wpc, legacy>>

\* self.stop_server(); if wrk_ok: return; else: self.results[category] = {}
WrkDecide ==
  /\ wpc = "scenarios"
  /\ scen > NumScenarios
  /\ IF wrk_ok
     THEN wpc' = "done" /\ UNCHANGED wresults
     ELSE wpc' = "fallback" /\ wresults' = {}
  /\ UNCHANGED <<scen, wrk_ok, legacy, wouts>>

\* if not self.start_server(...): return; else the built-in engine runs and
\* writes its metrics
Fallback ==
  /\ wpc = "fallback"
  /\ \E started \in BOOLEAN :
       IF started
       THEN legacy' = "run" /\ wresults' = wresults \cup {BuiltIn}
       ELSE legacy' = "skipped" /\ UNCHANGED wresults
  /\ wpc' = "done"
  /\ UNCHANGED <<scen, wrk_ok, wouts>>

\* benchmark_compute_api / benchmark_validation_api is called, the server
\* binary exists, the category is empty.
InitWrk ==
  /\ RunInit
  /\ FramerIdle
  /\ ReportIdle
  /\ ExtIdle
  /\ bench \in Benches
  /\ thread_count = 1
  /\ wpc = "begin"
  /\ scen = 1
  /\ wrk_ok = TRUE
  /\ wresults = {}
  /\ legacy = "no"
  /\ wouts = <<>>

NextWrk ==
  \/ WrkBegin /\ UNCHANGED <<runVars, fvars, reportVars, extVars>>
  \/ WrkScenario /\ UNCHANGED <<runVars, fvars, reportVars, extVars>>
  \/ WrkDecide /\ UNCHANGED <<runVars, fvars, reportVars, extVars>>
  \/ Fallback /\ UNCHANGED <<runVars, fvars, reportVars, extVars>>

SpecWrk == InitWrk /\ [][NextWrk]_vars

\* wrk ran on every scenario.
WrkUsed == Len(wouts) = NumScenarios

\* A scenario gave no output, socket errors, or a throughput under the floor
\* (a throughput that is not reported counts as 0).
SomeScenarioBad ==
  \E i \in 1..Len(wouts) :
    \/ ~wouts[i].out
    \/ (wouts[i].socket_errors # Absent /\ wouts[i].socket_errors > 0)
    \/ wouts[i].throughput = Absent
    \/ wouts[i].throughput < 1000

\* The keys the wrk runs wrote.
WrkKeys == {k \in wresults : k[1] # 0}

\* Every metric of every scenario's output.
AllWrkKeys ==
  {<<i, "throughput">> : i \in {j \in 1..Len(wouts) : wouts[j].throughput # Absent}}
  \cup {<<i, "socket_errors">> :
          i \in {j \in 1..Len(wouts) : wouts[j].socket_errors # Absent}}

\* C20, as the specification words it: with a bad scenario every wrk metric
\* is removed and the built-in engine is run; with none the wrk metrics are
\* kept and the built-in engine is not run.
WrkFallsBackToBuiltIn ==
  (wpc = "done" /\ WrkUsed) =>
    IF SomeScenarioBad
    THEN WrkKeys = {} /\ legacy = "run"
    ELSE WrkKeys = AllWrkKeys /\ legacy = "no"

\* C20, amended: with a bad scenario every wrk metric is removed and the
\* built-in engine is run if the target server starts again; if it does
\* not, the engine is skipped and the category is left empty.
WrkFallsBackIfServerStarts ==
  (wpc = "done" /\ WrkUsed) =>
    IF SomeScenarioBad
    THEN /\ WrkKeys = {}
         /\ legacy \in {"run", "skipped"}
         /\ legacy = "run" => wresults = {BuiltIn}
         /\ legacy = "skipped" => wresults = {}
    ELSE /\ wresults = AllWrkKeys
         /\ legacy = "no"

\* A scenario fell just under the floor, the wrk metrics went and the
\* built-in engine ran.
FloorMissedAndBuiltInRan ==
  /\ wpc = "done"
  /\ WrkUsed
  /\ \E i \in 1..Len(wouts) :
       wouts[i].out /\ wouts[i].throughput = 999 /\ wouts[i].socket_errors = 0
  /\ legacy = "run"
  /\ wresults = {BuiltIn}

\* ------------------------------------------------------------ start_server, run

\* start_server(server_path, ready_probe) up to the probe loop:
\* "if not server_path.exists(): return False", subprocess.Popen raises
\* ("except Exception: return False"), or the process is spawned.
StartServerEnter ==
  /\ sv_pc = "called"
  /\ \E o \in {"missing", "raised", "spawned"} :
       IF o = "spawned"
       THEN /\ proc' = "running"
            /\ sv_pc' = "loop"
            /\ UNCHANGED sv_ret
       ELSE /\ sv_pc' = "returned"
            /\ sv_ret' = [ok |-> FALSE, why |-> o]
            /\ UNCHANGED proc
  /\ clock' = 0
  /\ got' = FALSE
  /\ UNCHANGED starts

\* The target process ends by itself.
ProcExits ==
  /\ proc = "running"
  /\ sv_pc = "loop"
  /\ proc' = "exited"
  /\ UNCHANGED <<sv_pc, sv_ret, clock, got, starts>>

\* while time.time() < deadline: if self.server_proc.poll() is not None:
\* return False
ProbeExited ==
  /\ sv_pc = "loop"
  /\ clock < ProbeWindow
  /\ proc = "exited"
  /\ sv_pc' = "returned"
  /\ sv_ret' = [ok |-> FALSE, why |-> "exited"]
  /\ UNCHANGED <<proc, clock, got, starts>>

\* conn.request("GET", path); resp = conn.getresponse(); resp.read();
\* conn.close(); return True
ProbeAnswered ==
  /\ sv_pc = "loop"
  /\ clock < ProbeWindow
  /\ proc = "running"
  /\ got' = TRUE
  /\ sv_pc' = "returned"
  /\ sv_ret' = [ok |-> TRUE, why |-> "response"]
  /\ UNCHANGED <<proc, clock, starts>>

\* the probe raises (refused at once, or after up to the timeout):
\* except Exception: time.sleep(0.2); continue
ProbeRefused ==
  /\ sv_pc = "loop"
  /\ clock < ProbeWindow
  /\ proc = "running"
  /\ \E d \in 0..ProbeTimeout : clock' = clock + d + ProbeSleep
  /\ UNCHANGED <<sv_pc, sv_ret, proc, got, starts>>

\* A start_server that, once the window has ended, goes by the process being
\* alive, as its branch without a probe does.
ProbeDeadlineAlive ==
  /\ sv_pc = "loop"
  /\ clock >= ProbeWindow
  /\ sv_pc' = "returned"
  /\ sv_ret' = [ok |-> proc = "running", why |-> "deadline"]
  /\ UNCHANGED <<proc, clock, got, starts>>

\* the while loop ends: print("Error: Server did not respond to readiness
\* probe"); return False
ProbeDeadline ==
  /\ sv_pc = "loop"
  /\ clock >= ProbeWindow
  /\ sv_pc' = "returned"
  /\ sv_ret' = [ok |-> FALSE, why |-> "deadline"]
  /\ UNCHANGED <<proc, clock, got, starts>>

\* benchmark_*_api up to its first call of start_server: with wrk, or
\* straight to the built-in engine
ApiBegin ==
  /\ wpc = "begin"
  /\ \E use_wrk \in BOOLEAN : wpc' = IF use_wrk THEN "start1" ELSE "start2"
  /\ sv_pc' = "called"
  /\ UNCHANGED <<scen, wrk_ok, wresults, legacy, wouts, sv_ret, proc, clock,
                 got, starts>>

\* if not self.start_server(...): print(...); return   -- before the wrk runs
WrkStartReturns ==
  /\ wpc = "start1"
  /\ sv_pc = "returned"
  /\ starts' = Append(starts, [ok |-> sv_ret.ok, why |-> sv_ret.why, got |-> got])
  /\ wpc' = IF sv_ret.ok THEN "scenarios" ELSE "done"
  /\ sv_pc' = "idle"
  /\ UNCHANGED <<scen, wrk_ok, wresults, legacy, wouts, sv_ret, proc, clock, got>>

\* self.stop_server() ends the target; if wrk_ok: return; else the category
\* is emptied
WrkDecideStop ==
  /\ WrkDecide
  /\ proc' = "none"
  /\ UNCHANGED <<sv_pc, sv_ret, clock, got, starts>>

\* Fallback: self.start_server(...) is called again
FallbackCall ==
  /\ wpc = "fallback"
  /\ wpc' = "start2"
  /\ sv_pc' = "called"
  /\ UNCHANGED <<scen, wrk_ok, wresults, legacy, wouts, sv_ret, proc, clock,
                 got, starts>>

\* if not self.start_server(...): print(...); return   -- else the worker
\* threads run, the metrics of the built-in engine are written and
\* self.stop_server() ends the target
FallbackStartReturns ==
  /\ wpc = "start2"
  /\ sv_pc = "returned"
  /\ starts' = Append(starts, [ok |-> sv_ret.ok, why |-> sv_ret.why, got |-> got])
  /\ IF sv_ret.ok
     THEN legacy' = "run" /\ wresults' = wresults \cup {BuiltIn} /\ proc' = "none"
     ELSE legacy' = "skipped" /\ UNCHANGED <<wresults, proc>>
  /\ wpc' = "done"
  /\ sv_pc' = "idle"
  /\ UNCHANGED <<scen, wrk_ok, wouts, sv_ret, clock, got>>

\* benchmark_compute_api / benchmark_validation_api is called, the server
\* binary exists, the category is empty.
InitStart ==
  /\ RunInit
  /\ FramerIdle
  /\ ReportIdle
  /\ StartIdle
  /\ PickIdle
  /\ CmpIdle
  /\ ReqIdle
  /\ AuxIdle
  /\ bench \in Benches
  /\ thread_count = 1
  /\ wpc = "begin"
  /\ scen = 1
  /\ wrk_ok = TRUE
  /\ wresults = {}
  /\ legacy = "no"
  /\ wouts = <<>>

NextStart ==
  \/ ApiBegin /\ UNCHANGED <<runVars, fvars, reportVars, pickVars, cmpVars, reqVars, auxVars>>
  \/ StartServerEnter /\ UNCHANGED <<runVars, fvars, reportVars, wrkVars, pickVars, cmpVars, reqVars, auxVars>>
  \/ ProcExits /\ UNCHANGED <<runVars, fvars, reportVars, wrkVars, pickVars, cmpVars, reqVars, auxVars>>
  \/ ProbeExited /\ UNCHANGED <<runVars, fvars, reportVars, wrkVars, pickVars, cmpVars, reqVars, auxVars>>
  \/ ProbeAnswered /\ UNCHANGED <<runVars, fvars, reportVars, wrkVars, pickVars, cmpVars, reqVars, auxVars>>
  \/ ProbeRefused /\ UNCHANGED <<runVars, fvars, reportVars, wrkVars, pickVars, cmpVars, reqVars, auxVars>>
  \/ ProbeDeadline /\ UNCHANGED <<runVars, fvars, reportVars, wrkVars, pickVars, cmpVars, reqVars, auxVars>>
  \/ WrkStartReturns /\ UNCHANGED <<runVars, fvars, reportVars, pickVars, cmpVars, reqVars, auxVars>>
  \/ WrkScenario /\ UNCHANGED <<runVars, fvars, reportVars, startVars, pickVars, cmpVars, reqVars, auxVars>>
  \/ WrkDecideStop /\ UNCHANGED <<runVars, fvars, reportVars, pickVars, cmpVars, reqVars, auxVars>>
  \/ FallbackCall /\ UNCHANGED <<runVars, fvars, reportVars, pickVars, cmpVars, reqVars, auxVars>>
  \/ FallbackStartReturns /\ UNCHANGED <<runVars, fvars, reportVars, pickVars, cmpVars, reqVars, auxVars>>

SpecStart == InitStart /\ [][NextStart]_vars

\* The last call of start_server.
LastStart == starts[Len(starts)]

\* C21: wrk runs only after the first call of start_server returned on a
\* whole response to its probe, and the worker threads only after the latest
\* call did; a call in which the process exited or the 5 s window ended
\* without a response returns False, and when the latest call returned False
\* nothing more is run and the category holds no metric.
LoadOnlyAfterProbe ==
  /\ (wpc = "scenarios" \/ wouts # <<>>) =>
       (starts # <<>> /\ starts[1].ok /\ starts[1].got)
  /\ legacy = "run" => (starts # <<>> /\ LastStart.ok /\ LastStart.got)
  /\ \A i \in 1..Len(starts) :
       /\ starts[i].ok <=> starts[i].got
       /\ starts[i].why \in {"exited", "deadline"} => ~starts[i].ok
  /\ (wpc = "done" /\ starts # <<>> /\ ~LastStart.ok) =>
       /\ wresults = {}
       /\ legacy # "run"
       /\ Len(starts) = 1 => wouts = <<>>

\* The probe window ended without a response and the scenario was skipped.
ProbeWindowEndedAndSkipped ==
  /\ wpc = "done"
  /\ starts # <<>>
  /\ LastStart.why = "deadline"
  /\ clock >= ProbeWindow
  /\ legacy = "skipped"
  /\ wresults = {}

\* ------------------------------------------------------------ selection, run

\* local idx = pick_index()   -- in request() of the generated script
PickIndexCall ==
  /\ ppc = "start"
  /\ IF weights = NoWeights
     THEN \E i \in 1..nbodies : picked' = i
     ELSE picked' = PickIndex(weights, nbodies, draw)
  /\ ppc' = "lua"
  /\ UNCHANGED <<weights, nbodies, draw>>

\* use_valid = rng.random() < 0.6   -- in the validation worker
UseValidCall ==
  /\ ppc = "start"
  /\ picked' = UseValid(draw)
  /\ ppc' = "py"
  /\ UNCHANGED <<weights, nbodies, draw>>

\* A variant is about to be selected: by the script run_wrk generated for a
\* scenario with several bodies, or by the validation worker.
InitPick ==
  /\ RunInit
  /\ FramerIdle
  /\ ReportIdle
  /\ WrkIdle
  /\ StartIdle
  /\ CmpIdle
  /\ ReqIdle
  /\ AuxIdle
  /\ bench = "validation"
  /\ thread_count = 1
  /\ weights \in WeightLists \cup {NoWeights}
  /\ nbodies \in 2..MaxBodies
  /\ weights # NoWeights => nbodies = Len(weights)
  /\ draw \in DrawVals
  /\ picked = 0
  /\ ppc = "start"

NextPick ==
  \/ PickIndexCall /\ UNCHANGED <<runVars, fvars, reportVars, wrkVars, startVars, cmpVars, reqVars, auxVars>>
  \/ UseValidCall /\ UNCHANGED <<runVars, fvars, reportVars, wrkVars, startVars, cmpVars, reqVars, auxVars>>

SpecPick == InitPick /\ [][NextPick]_vars

\* w1 + ... + wi
RECURSIVE Cumulative(_, _)
Cumulative(ws, i) == IF i = 0 THEN 0 ELSE Cumulative(ws, i - 1) + ws[i]

\* The first variant whose cumulative weight strictly exceeds r, the last
\* variant when there is none.
FirstExceeding(ws, r) ==
  IF \E i \in 1..Len(ws) : Cumulative(ws, i) > r
  THEN CHOOSE i \in 1..Len(ws) :
         /\ Cumulative(ws, i) > r
         /\ \A j \in 1..(i - 1) : Cumulative(ws, j) <= r
  ELSE Len(ws)

\* C22: the weighted selection returns the first variant whose cumulative
\* weight strictly exceeds the draw, and the last variant when none does: a
\* variant of weight 0 placed first is never selected, and a draw equal to a
\* cumulative boundary selects the next variant.
PickIsFirstExceeding ==
  /\ (ppc = "lua" /\ weights # NoWeights) =>
       /\ picked = FirstExceeding(weights, draw)
       /\ weights[1] = 0 => picked # 1
  /\ ppc = "py" => picked = FirstExceeding(<<ValidShare, 100 - ValidShare>>, draw)

\* ------------------------------------------------------------ compare_benchmarks, run

\* load_json failed: FileNotFoundError or json.JSONDecodeError, sys.exit(2)
LoadFails(f) == f.state \in {"missing", "badjson"}

\* baseline = load_json(args.baseline); current = load_json(args.current)
LoadFiles ==
  /\ mpc = "start"
  /\ IF LoadFails(bfile) \/ LoadFails(cfile)
     THEN mpc' = "exited" /\ exit_code' = 2
     ELSE mpc' = "loaded" /\ UNCHANGED exit_code
  /\ UNCHANGED <<bfile, cfile, threshold, no_fail, results, has_regression>>

\* results, has_regression = compare_metrics(baseline, current, args.threshold)
\* -- baseline.keys() raises on a document that is no object, float() on a
\* value that is no number --, then "if not results: sys.exit(2)"
CompareStep ==
  /\ mpc = "loaded"
  /\ IF bfile.state = "notdict" \/ cfile.state = "notdict"
     THEN /\ mpc' = "exited"
          /\ exit_code' = UncaughtExit
          /\ UNCHANGED <<results, has_regression>>
     ELSE \E r \in {CompareMetrics(bfile.doc, cfile.doc, threshold)} :
            IF r.raised
            THEN /\ mpc' = "exited"
                 /\ exit_code' = UncaughtExit
                 /\ UNCHANGED <<results, has_regression>>
            ELSE /\ results' = r.results
                 /\ has_regression' = r.has_regression
                 /\ IF r.results = <<>>
                    THEN mpc' = "exited" /\ exit_code' = 2
                    ELSE mpc' = "compared" /\ UNCHANGED exit_code
  /\ UNCHANGED <<bfile, cfile, threshold, no_fail>>

\* print_results, generate_json_report when --output is given (writing the
\* report may raise), then the exit code
ExitStep ==
  /\ mpc = "compared"
  /\ \E report \in {"none", "written", "raises"} :
       exit_code' = IF report = "raises" THEN UncaughtExit
                    ELSE IF has_regression /\ ~no_fail THEN 1
                    ELSE 0
  /\ mpc' = "exited"
  /\ UNCHANGED <<bfile, cfile, threshold, no_fail, results, has_regression>>

\* compare_benchmarks.py is run on two files.
InitCompare ==
  /\ RunInit
  /\ FramerIdle
  /\ ReportIdle
  /\ WrkIdle
  /\ StartIdle
  /\ PickIdle
  /\ ReqIdle
  /\ AuxIdle
  /\ bench = "compute"
  /\ thread_count = 1
  /\ bfile \in Files(BaselineValues)
  /\ cfile \in Files(CurrentValues)
  /\ threshold \in Thresholds
  /\ no_fail \in BOOLEAN
  /\ mpc = "start"
  /\ results = <<>>
  /\ has_regression = FALSE
  /\ exit_code = NoExit

NextCompare ==
  \/ LoadFiles /\ UNCHANGED <<runVars, fvars, reportVars, wrkVars, startVars, pickVars, reqVars, auxVars>>
  \/ CompareStep /\ UNCHANGED <<runVars, fvars, reportVars, wrkVars, startVars, pickVars, reqVars, auxVars>>
  \/ ExitStep /\ UNCHANGED <<runVars, fvars, reportVars, wrkVars, startVars, pickVars, reqVars, auxVars>>

SpecCompare == InitCompare /\ [][NextCompare]_vars

\* The metrics the two files share; none when a file holds no object.
Shared ==
  IF bfile.state = "ok" /\ cfile.state = "ok"
  THEN (DOMAIN bfile.doc) \cap (DOMAIN cfile.doc)
  ELSE {}

\* A comparison returned with is_regression set.
SomeRegression == \E i \in 1..Len(results) : results[i].is_regression

\* C23: the script exits with 2 when a file is missing, is not JSON or the
\* files share no metric; otherwise with 1 exactly when a compared metric is
\* a regression and --no-fail is not given; with 0 in every other case.
ExitCodeContract ==
  mpc = "exited" =>
    exit_code = IF LoadFails(bfile) \/ LoadFails(cfile) \/ Shared = {} THEN 2
                ELSE IF SomeRegression /\ ~no_fail THEN 1
                ELSE 0

\* A document without the metrics ns.
Without(d, ns) == [n \in (DOMAIN d) \ ns |-> d[n]]

\* C24: compare_metrics returns one comparison for each metric present in
\* both files and none for any other, with the values the files hold; the
\* metrics present in one file only change neither the comparisons nor
\* has_regression.
OnlySharedKeysCompared ==
  mpc = "compared" =>
    /\ {results[i].name : i \in 1..Len(results)} = Shared
    /\ Len(results) = Cardinality(Shared)
    /\ \A i \in 1..Len(results) :
         /\ results[i].baseline = ValueOf(bfile.doc[results[i].name])
         /\ results[i].current = ValueOf(cfile.doc[results[i].name])
    /\ LET b == bfile.doc
           c == cfile.doc
           r == CompareMetrics(Without(b, (DOMAIN b) \ Shared),
                               Without(c, (DOMAIN c) \ Shared), threshold)
       IN r.results = results /\ r.has_regression = has_regression

\* Each file holds a metric the other lacks, and the one they share was
\* compared and is a regression.
AbsentKeysNotCompared ==
  /\ mpc = "compared"
  /\ (DOMAIN bfile.doc) \ (DOMAIN cfile.doc) # {}
  /\ (DOMAIN cfile.doc) \ (DOMAIN bfile.doc) # {}
  /\ Len(results) = 1
  /\ has_regression

\* C25: a metric whose name is_throughput_metric recognises is judged as a
\* throughput: a drop of more than the threshold is a regression and a rise
\* is not, also when the name contains a latency keyword.
ThroughputJudgedAsThroughput ==
  \A i \in 1..Len(results) :
    IsThroughputMetric(results[i].name) =>
      /\ Below(results[i].change_percent, threshold) => results[i].is_regression
      /\ results[i].current > results[i].baseline => ~results[i].is_regression

\* The change is exactly the threshold, up or down.
AtThreshold(ch, t) ==
  /\ ~ch.inf
  /\ \/ ch.num = t * ch.den
     \/ ch.num = (0 - t) * ch.den

\* C26: no comparison is both a regression and an improvement; a change of
\* exactly the threshold is neither; has_regression holds exactly when a
\* returned comparison is a regression; baseline 0 and current 0 give the
\* change 0 and neither.
FlagsConsistent ==
  /\ has_regression <=> SomeRegression
  /\ \A i \in 1..Len(results) :
       LET r == results[i]
       IN /\ ~(r.is_regression /\ r.is_improvement)
          /\ AtThreshold(r.change_percent, threshold) =>
               (~r.is_regression /\ ~r.is_improvement)
          /\ (r.baseline = 0 /\ r.current = 0) =>
               /\ r.change_percent = [inf |-> FALSE, num |-> 0, den |-> 1]
               /\ ~r.is_regression
               /\ ~r.is_improvement

\* A latency that rose by exactly the threshold and a metric that is 0 in
\* both files were compared.
ThresholdAndZeroCompared ==
  /\ mpc = "compared"
  /\ \E i \in 1..Len(results) :
       /\ results[i].name = NameP99
       /\ results[i].baseline = 100
       /\ results[i].current = 103
       /\ ~results[i].is_regression
  /\ \E i \in 1..Len(results) :
       results[i].baseline = 0 /\ results[i].current = 0

\* ------------------------------------------------------------ pool

\* The sockets of w's attempts since its pool last changed go round the
\* pool: any Len(socks[w]) consecutive ones differ, and the next one is the
\* first of them again.
GoesRound(w) ==
  LET k == Len(socks[w])
      b == borrowed[w]
  IN b # <<>> =>
       /\ k >= 1
       /\ \A i \in 1..Len(b) : b[i] \in Range(socks[w])
       /\ \A i, j \in 1..Len(b) :
            /\ (i < j /\ j - i < k) => b[i] # b[j]
            /\ j - i = k => b[i] = b[j]

\* Inside the loop w's pool grows only when it is empty, by one socket that
\* was not open before, and the attempt uses that socket.
OpensOneWhenEmpty(w) ==
  (pc[w] \in InLoop /\ Len(socks'[w]) > Len(socks[w])) =>
    /\ socks[w] = <<>>
    /\ pc[w] = "try"
    /\ sock[w] = NoSock
    /\ Len(socks'[w]) = 1
    /\ sock'[w] = socks'[w][1]
    /\ sock'[w] \notin open
    /\ open' = open \cup {sock'[w]}
    /\ nconn'[w] = nconn[w] + 1

\* C27: while a worker's pool holds k >= 1 connections and no attempt
\* raises, any k consecutive attempts use each pooled connection once, in a
\* fixed cyclic order; with an empty pool the worker opens exactly one
\* connection, adds it to the pool and uses it for that attempt.
BorrowedRoundRobin ==
  /\ [](\A w \in AllWorkers : GoesRound(w))
  /\ [][\A w \in AllWorkers : OpensOneWhenEmpty(w)]_vars

\* A worker with a pool of two has made three attempts in a row: the first
\* socket, the second, the first again.
PoolOfTwoCycled ==
  \E w \in Workers :
    /\ Len(socks[w]) = 2
    /\ Len(borrowed[w]) = 3
    /\ borrowed[w][1] = socks[w][1]
    /\ borrowed[w][2] = socks[w][2]
    /\ borrowed[w][3] = socks[w][1]

\* C28: a worker's pool never holds more than connections_per_thread
\* sockets, whatever attempts raise, whatever is discarded and reopened.
PoolWithinBound ==
  \A w \in AllWorkers :
    Len(socks[w]) <= ConnectionsPerThread(bench, thread_count)

\* An attempt on a pool filled to connections_per_thread has raised and its
\* socket is about to be discarded.
FullPoolMemberFails ==
  \E w \in Workers :
    /\ Len(socks[w]) = ConnectionsPerThread(bench, thread_count)
    /\ pc[w] = "exc_wr"
    /\ sock[w] \in Range(socks[w])

\* C29: a worker opens a connection only when an attempt needs one: before
\* its first attempt it has opened none, and a worker that finds the stop
\* flag set before its first attempt ends without having opened any. (One
\* worker: attempts counts its attempts.)
PoolPopulatedLazily ==
  \A w \in Workers :
    attempts = 0 => (nconn[w] = 0 /\ socks[w] = <<>>)

\* ------------------------------------------------------------ build_request, run

\* request_cache = {...}   (request_valid, request_invalid = ...), before the
\* loop "for thread_count in (...)"
BuildRequestCache ==
  /\ rqc = "build"
  /\ request_cache' = RequestCache(bench)
  /\ rqc' = "built"

\* run_threads(thread_count, warmup_s, ...) and run_threads(thread_count,
\* measure_s, ...), which follow the encoding
RunThreads ==
  /\ rqc = "built"
  /\ Next

\* benchmark_*_api has started the target and is about to encode the
\* requests; run_threads(1, ...) follows.
InitReq ==
  /\ RunInit
  /\ FramerIdle
  /\ ReportIdle
  /\ WrkIdle
  /\ StartIdle
  /\ PickIdle
  /\ CmpIdle
  /\ AuxIdle
  /\ thread_count = 1
  /\ request_cache = <<>>
  /\ rqc = "build"

NextReq ==
  \/ BuildRequestCache /\ UNCHANGED <<runVars, fvars, reportVars, wrkVars, startVars, pickVars, cmpVars, auxVars>>
  \/ RunThreads

SpecReq == InitReq /\ [][NextReq]_vars

\* The request req is a head that ends with the end-of-headers marker and
\* declares the length of what follows it, which is payload.
CarriesLengthOf(req, payload) ==
  /\ \E k \in 1..Len(req) : OccursAt(req, Terminator, k)
  /\ LET i == CHOOSE k \in 1..Len(req) :
                  /\ OccursAt(req, Terminator, k)
                  /\ \A j \in 1..(k - 1) : ~OccursAt(req, Terminator, j)
         lines == SplitAll(SubSeq(req, 1, i - 1), CRLF)
     IN /\ SubSeq(req, i + Len(Terminator), Len(req)) = payload
        /\ ContentLengthScan(lines, 2, None) = Len(payload)

\* C30: the requests are encoded once, before any worker is started, each
\* with a Content-Length equal to the length of its payload, and no step of
\* the warm-up or the measurement call changes them.
RequestsBuiltOnceAndKept ==
  /\ [](rqc = "build" => (cpc = "starting" /\ nstarted = 0))
  /\ [][/\ rqc = "built" => UNCHANGED <<request_cache, rqc>>
        /\ (rqc = "build" /\ rqc' = "built") =>
             /\ DOMAIN request_cache' = DOMAIN Payloads(bench)
             /\ \A n \in DOMAIN request_cache' :
                  CarriesLengthOf(request_cache'[n], Payloads(bench)[n])]_vars

\* The measurement call has returned, attempts made, with the requests as
\* they were encoded.
RequestsKeptThroughRun ==
  /\ cpc = "returned"
  /\ collect_stats
  /\ attempts > 0
  /\ rqc = "built"
  /\ request_cache = RequestCache(bench)
  /\ Len(request_cache[CHOOSE n \in DOMAIN request_cache : TRUE]) > 100

\* ------------------------------------------------------------ one connection

\* Requests sent on the one connection followed.
MaxResponses == 2

\* The worker's next attempt on a pooled connection: sock.sendall(req_bytes),
\* the target writes the response to that request behind whatever the
\* connection still holds, and read_response(sock) starts with data = b"".
SendNext ==
  /\ fpc \in {"idle", "returned"}
  /\ nresp < MaxResponses
  /\ \E st \in FramerStatuses, lay \in Layouts, body \in Bodies :
       /\ resp' = SubSeq(resp, pos + 1, Len(resp))
                    \o WellFormed(st, lay[1], lay[2], lay[3], body)
       /\ expect' = [wf |-> TRUE, status |-> st, body |-> body,
                     hdr |-> Find(resp', Terminator)]
  /\ pos' = 0
  /\ fpc' = "headers"
  /\ data' = <<>>
  /\ rest' = <<>>
  /\ fstatus' = None
  /\ to_read' = 0
  /\ result' = <<None, NoBody>>
  /\ nrecv' = 0
  /\ seen' = {}
  /\ nresp' = nresp + 1
  /\ paired' = (paired /\ (fpc = "returned" =>
                             result = <<expect.status, expect.body>>))

\* make_socket() has returned a connection to a target that honours the
\* target contract; nothing was sent on it yet.
InitConn ==
  /\ RunInit
  /\ bench = "compute"
  /\ thread_count = 1
  /\ FramerIdle
  /\ ReportIdle
  /\ WrkIdle
  /\ ExtIdle

\* The target neither closes the connection nor sends a byte it was not
\* asked for; it may be slow (recv raises socket.timeout).
NextConn ==
  \/ SendNext /\ UNCHANGED <<runVars, reportVars, wrkVars, startVars, pickVars, cmpVars, reqVars, procVars, mdVars, readmeVars, blockVars>>
  \/ RecvHeader /\ UNCHANGED <<runVars, offVars>>
  \/ ParseStep /\ UNCHANGED <<runVars, offVars>>
  \/ RecvBody /\ UNCHANGED <<runVars, offVars>>
  \/ RecvRaises /\ UNCHANGED <<runVars, offVars>>

SpecConn == InitConn /\ [][NextConn]_vars

\* C31: against a target that honours the target contract, whenever
\* read_response returns, the connection holds no unread byte of that
\* response, the pair returned is the status and body sent for the request of
\* this attempt, so were all earlier ones on the connection, and every read
\* starts at the first byte of a status line.
ConnectionStaysInSync ==
  /\ fpc = "returned" =>
       /\ pos = Len(resp)
       /\ result = <<expect.status, expect.body>>
       /\ paired
  /\ (fpc = "headers" /\ pos = 0) => StartsWith(resp, HTTP11)

\* The second request on the connection was answered 422 "hi", part of the
\* body arriving with the headers, and read_response returned just that.
SecondResponsePaired ==
  /\ nresp = 2
  /\ fpc = "returned"
  /\ result = <<422, <<"h", "i">>>>
  /\ paired
  /\ "body with headers" \in seen

\* ------------------------------------------------------------ server processes

\* run_benchmark("simple_benchmark", needs_server=True, server_path): the
\* benchmark binary is missing (return None); start_server without a probe
\* finds no server binary, Popen raises, or the process has exited after the
\* 2 s sleep (return False, then return None); or the benchmark is run and
\* "finally: self.stop_server()" ends the target. The later calls of
\* run_benchmark have needs_server False.
RunBenchmark ==
  /\ phase = "simple"
  /\ \E o \in {"no benchmark", "missing", "raised", "exited", "ran"} :
       proc' = IF o = "exited" THEN "exited"
               ELSE IF o = "ran" THEN "none" ELSE proc
  /\ phase' = "compute"
  /\ wpc' = "begin"
  /\ UNCHANGED <<scen, wrk_ok, wresults, legacy, wouts, sv_pc, sv_ret, clock,
                 got, starts, orphans>>

\* self.server_proc = subprocess.Popen(...) in start_server: the process the
\* attribute held, if it is alive, is no longer referenced.
Spawn ==
  /\ StartServerEnter
  /\ orphans' = IF proc = "running" /\ sv_pc' = "loop"
                THEN orphans + 1 ELSE orphans
  /\ UNCHANGED phase

\* A process that is no longer referenced ends by itself.
OrphanExits ==
  /\ orphans > 0
  /\ orphans' = orphans - 1
  /\ UNCHANGED phase

\* collector.benchmark_compute_api() has returned:
\* collector.benchmark_validation_api() is called.
NextApi ==
  /\ phase = "compute"
  /\ wpc = "done"
  /\ phase' = "validation"
  /\ wpc' = "begin"
  /\ scen' = 1
  /\ wrk_ok' = TRUE
  /\ wresults' = {}
  /\ legacy' = "no"
  /\ wouts' = <<>>
  /\ sv_ret' = NotReturned
  /\ clock' = 0
  /\ got' = FALSE
  /\ starts' = <<>>
  /\ UNCHANGED <<sv_pc, proc, orphans>>

\* main() has made its BenchmarkCollector.
InitProc ==
  /\ RunInit
  /\ bench = "compute"
  /\ thread_count = 1
  /\ FramerIdle
  /\ ReportIdle
  /\ WrkIdle
  /\ StartIdle
  /\ PickIdle
  /\ CmpIdle
  /\ ReqIdle
  /\ ConnIdle
  /\ MdIdle
  /\ ReadmeIdle
  /\ BlockIdle
  /\ phase = "simple"
  /\ orphans = 0

NextProc ==
  \/ RunBenchmark /\ UNCHANGED <<runVars, fvars, reportVars, pickVars, cmpVars, reqVars, connVars, mdVars, readmeVars, blockVars>>
  \/ ApiBegin /\ UNCHANGED <<runVars, fvars, reportVars, pickVars, cmpVars, reqVars, auxVars>>
  \/ Spawn /\ UNCHANGED <<runVars, fvars, reportVars, wrkVars, pickVars, cmpVars, reqVars, connVars, mdVars, readmeVars, blockVars>>
  \/ ProcExits /\ UNCHANGED <<runVars, fvars, reportVars, wrkVars, pickVars, cmpVars, reqVars, auxVars>>
  \/ OrphanExits /\ UNCHANGED <<runVars, fvars, reportVars, wrkVars, startVars, pickVars, cmpVars, reqVars, connVars, mdVars, readmeVars, blockVars>>
  \/ ProbeExited /\ UNCHANGED <<runVars, fvars, reportVars, wrkVars, pickVars, cmpVars, reqVars, auxVars>>
  \/ ProbeAnswered /\ UNCHANGED <<runVars, fvars, reportVars, wrkVars, pickVars, cmpVars, reqVars, auxVars>>
  \/ ProbeRefused /\ UNCHANGED <<runVars, fvars, reportVars, wrkVars, pickVars, cmpVars, reqVars, auxVars>>
  \/ ProbeDeadline /\ UNCHANGED <<runVars, fvars, reportVars, wrkVars, pickVars, cmpVars, reqVars, auxVars>>
  \/ WrkStartReturns /\ UNCHANGED <<runVars, fvars, reportVars, pickVars, cmpVars, reqVars, auxVars>>
  \/ WrkScenario /\ UNCHANGED <<runVars, fvars, reportVars, startVars, pickVars, cmpVars, reqVars, auxVars>>
  \/ WrkDecideStop /\ UNCHANGED <<runVars, fvars, reportVars, pickVars, cmpVars, reqVars, auxVars>>
  \/ FallbackCall /\ UNCHANGED <<runVars, fvars, reportVars, pickVars, cmpVars, reqVars, auxVars>>
  \/ FallbackStartReturns /\ UNCHANGED <<runVars, fvars, reportVars, pickVars, cmpVars, reqVars, auxVars>>
  \/ NextApi /\ UNCHANGED <<runVars, fvars, reportVars, pickVars, cmpVars, reqVars, connVars, mdVars, readmeVars, blockVars>>

SpecProc == InitProc /\ [][NextProc]_vars

\* Started processes that are alive.
Alive == (IF proc = "running" THEN 1 ELSE 0) + orphans

\* run_benchmark, benchmark_compute_api or benchmark_validation_api has
\* returned.
Returned == wpc = "done" \/ (phase = "compute" /\ wpc = "begin")

\* C32: whenever run_benchmark, benchmark_compute_api or
\* benchmark_validation_api has returned, no started server process is alive
\* and self.server_proc is None; at no time are two started processes alive.
NoServerLeftRunning ==
  /\ Returned => (Alive = 0 /\ proc = "none")
  /\ Alive <= 1

\* ------------------------------------------------------------ connections closed

\* C33: when run_threads has returned no connection its workers opened is
\* still open, and while the measurement pass runs no connection of the
\* warm-up pass is open.
AllClosedOnReturn ==
  /\ cpc = "returned" => open = {}
  /\ collect_stats => \A s \in open : s[1] = 2

\* Both passes of two workers have returned; in the measurement pass each
\* worker opened connections and one was closed on the error path.
BothPassesClosedEverything ==
  /\ cpc = "returned"
  /\ collect_stats
  /\ thread_count = 2
  /\ \A w \in Workers : nconn[w] >= 1
  /\ failed # {}
  /\ attempts > 0
  /\ open = {}

\* ------------------------------------------------------------ success rate

\* total_requests = totals["valid"] + totals["invalid"]
TotalRequests == totals["valid"] + totals["invalid"]

\* successes = len(latencies["valid"]) + len(latencies["invalid"])
Successes == Len(latencies["valid"]) + Len(latencies["invalid"])

\* C34: when the measurement pass of the validation scenario has returned,
\* the successes do not exceed the total of requests, so that
\* (successes / max(total_requests, 1)) * 100.0 is at most 100.
SuccessesWithinTotal ==
  (bench = "validation" /\ collect_stats /\ cpc = "returned") =>
    /\ Successes <= TotalRequests
    /\ Successes * 100 <= 100 * Max(TotalRequests, 1)

\* ------------------------------------------------------------ percentile order

\* The value written for percentile p.
Emitted(p) == CHOOSE x \in {e[2] : e \in {f \in out : f[1] = p}} : TRUE

\* C35: for a variant with at least one latency the emitted percentiles are
\* ordered p50 <= p95 <= p99, and each lies between the least and the
\* greatest latency recorded.
PercentilesOrderedAndBounded ==
  (rpc = "emitted" /\ values # <<>>) =>
    /\ \A p \in ReportedPercentiles : \E e \in out : e[1] = p
    /\ Emitted(50) <= Emitted(95)
    /\ Emitted(95) <= Emitted(99)
    /\ \A p \in ReportedPercentiles :
         /\ \A i \in 1..Len(values) :
              (\A j \in 1..Len(values) : values[i] <= values[j]) =>
                values[i] <= Emitted(p)
         /\ \A i \in 1..Len(values) :
              (\A j \in 1..Len(values) : values[j] <= values[i]) =>
                Emitted(p) <= values[i]

\* 30, 10, 20 were recorded in that order: p50 is 20, p95 and p99 are 30.
UnsortedLatenciesEmitted ==
  /\ rpc = "emitted"
  /\ values = <<30, 10, 20>>
  /\ out = {<<50, 20>>, <<95, 30>>, <<99, 30>>}

\* ------------------------------------------------------------ generate_markdown

\* An entry of self.results[category]: a (value, unit) pair, as
\* parse_simple_benchmark and the example benchmarks write, or a dictionary of
\* metrics, as parse_standard_benchmark writes.
PairEntry(name) == [name |-> name, dict |-> FALSE, metrics |-> <<>>]
DictEntry(name, metrics) == [name |-> name, dict |-> TRUE, metrics |-> metrics]

\* A category that is no key of self.results.
NoCategory == [present |-> FALSE, entries |-> <<>>]

\* self.results[category], its keys in sorted order
Category(entries) == [present |-> TRUE, entries |-> entries]

\* The categories explored, as sorted(self.results.keys()) orders them.
Categories ==
  <<"Core Performance", "Example: compute_api", "Example: validation_api",
    "Scalability">>

\* What main can leave in each category: nothing at all (no binary found),
\* an empty mapping (setdefault, then the scenario was skipped; a section
\* without a metric line), or entries.
CategoryContents(c) ==
  CASE c = "Core Performance" ->
         { NoCategory,
           Category(<<DictEntry("HTTP Parser (Fragmented Request)",
                                <<"Latency p99", "Throughput">>)>>),
           Category(<<DictEntry("Ring Buffer Queue", <<>>)>>) }
    [] c = "Example: compute_api" ->
         { NoCategory, Category(<<>>),
           Category(<<PairEntry("1 threads errors"),
                      PairEntry("1 threads throughput")>>) }
    [] c = "Example: validation_api" ->
         { NoCategory, Category(<<>>),
           Category(<<PairEntry("4 threads success_rate")>>) }
    [] OTHER ->
         { NoCategory, Category(<<>>),
           Category(<<PairEntry("Throughput with 8 threads")>>) }

\* sorted(self.results.keys())
RECURSIVE PresentFrom(_, _)
PresentFrom(res, i) ==
  IF i > Len(Categories) THEN <<>>
  ELSE (IF res[Categories[i]].present THEN <<Categories[i]>> ELSE <<>>)
       \o PresentFrom(res, i + 1)

Present(res) == PresentFrom(res, 1)

\* iter_flat_metrics(category_name): the names it yields
FlatNames(res, c) ==
  IF ~res[c].present THEN {}
  ELSE UNION { IF res[c].entries[i].dict
               THEN {res[c].entries[i].metrics[j] :
                       j \in 1..Len(res[c].entries[i].metrics)}
               ELSE {res[c].entries[i].name} :
               i \in 1..Len(res[c].entries) }

\* get_bench_metric(category_name, bench_name, metric_name) is not None
HasBenchMetric(res, c, b, m) ==
  /\ res[c].present
  /\ \E i \in 1..Len(res[c].entries) :
       /\ res[c].entries[i].name = b
       /\ res[c].entries[i].dict
       /\ \E j \in 1..Len(res[c].entries[i].metrics) :
            res[c].entries[i].metrics[j] = m

\* summarize(): the items it returns, for the categories explored
Summarize(res) ==
  (IF "Latency p99" \in FlatNames(res, "Core Performance")
   THEN <<"Core">> ELSE <<>>)
  \o (IF "Throughput with 8 threads" \in FlatNames(res, "Scalability")
      THEN <<"Thread scaling">> ELSE <<>>)
  \o (IF HasBenchMetric(res, "Core Performance",
                        "HTTP Parser (Fragmented Request)", "Latency p99")
      THEN <<"HTTP fragmented p99">> ELSE <<>>)

\* The table rows of one entry: "| bench - metric | .. |" for each metric of
\* a dictionary in sorted order, "| bench | .. |" for a pair.
EntryRows(e) ==
  IF e.dict
  THEN [j \in 1..Len(e.metrics) |-> <<e.name, e.metrics[j]>>]
  ELSE << <<e.name>> >>

\* for bench_name in sorted(self.results[category].keys()): ...
RECURSIVE CategoryRows(_, _)
CategoryRows(entries, i) ==
  IF i > Len(entries) THEN <<>>
  ELSE EntryRows(entries[i]) \o CategoryRows(entries, i + 1)

\* with open(output_path, 'w') as f: title, Generated, the summary if there
\* is one, the table of contents
MdWriteHead ==
  /\ md_pc = "called"
  /\ md_out' = <<[section |-> "title", rows |-> <<>>]>>
               \o (IF Summarize(md_results) # <<>>
                   THEN <<[section |-> "Summary",
                           rows |-> Summarize(md_results)]>>
                   ELSE <<>>)
               \o <<[section |-> "Table of Contents",
                     rows |-> Present(md_results)]>>
  /\ md_pc' = "loop"
  /\ UNCHANGED <<md_results, md_i, md_k>>

\* for i, category in enumerate(categories): one iteration
MdCategory ==
  /\ md_pc = "loop"
  /\ md_k < Len(Present(md_results))
  /\ md_i' = md_k
  /\ md_k' = md_k + 1
  /\ \E c \in {Present(md_results)[md_k + 1]} :
       md_out' = Append(md_out,
                        [section |-> c,
                         rows |-> CategoryRows(md_results[c].entries, 1)])
  /\ UNCHANGED <<md_results, md_pc>>

\* after the loop: "if i < len(categories) - 1: f.write("\n")", which reads
\* i; an UnboundLocalError leaves generate_markdown and main
MdAfterLoop ==
  /\ md_pc = "loop"
  /\ md_k = Len(Present(md_results))
  /\ IF md_i = None
     THEN md_pc' = "raised" /\ UNCHANGED md_out
     ELSE /\ md_pc' = "done"
          /\ md_out' = IF md_i < Len(Present(md_results)) - 1
                       THEN Append(md_out, [section |-> "blank", rows |-> <<>>])
                       ELSE md_out
  /\ UNCHANGED <<md_results, md_i, md_k>>

\* The results mappings explored: each category absent, empty or filled.
ResultsMappings ==
  LET names == {Categories[i] : i \in 1..Len(Categories)}
  IN {f \in [names -> UNION {CategoryContents(c) : c \in names}] :
        \A c \in names : f[c] \in CategoryContents(c)}

\* main calls collector.generate_markdown(output_file) with what the
\* benchmarks left in self.results.
InitMd ==
  /\ RunInit
  /\ bench = "compute"
  /\ thread_count = 1
  /\ FramerIdle
  /\ ReportIdle
  /\ WrkIdle
  /\ StartIdle
  /\ PickIdle
  /\ CmpIdle
  /\ ReqIdle
  /\ ConnIdle
  /\ ProcIdle
  /\ ReadmeIdle
  /\ BlockIdle
  /\ md_results \in ResultsMappings
  /\ md_pc = "called"
  /\ md_i = None
  /\ md_k = 0
  /\ md_out = <<>>

NextMd ==
  \/ MdWriteHead /\ UNCHANGED <<runVars, fvars, reportVars, wrkVars, startVars, pickVars, cmpVars, reqVars, connVars, procVars, readmeVars, blockVars>>
  \/ MdCategory /\ UNCHANGED <<runVars, fvars, reportVars, wrkVars, startVars, pickVars, cmpVars, reqVars, connVars, procVars, readmeVars, blockVars>>
  \/ MdAfterLoop /\ UNCHANGED <<runVars, fvars, reportVars, wrkVars, startVars, pickVars, cmpVars, reqVars, connVars, procVars, readmeVars, blockVars>>

SpecMd == InitMd /\ [][NextMd]_vars

\* C36: generate_markdown raises for no results mapping the collector can
\* reach, the empty mapping and a category with an empty mapping included.
GenerateMarkdownCompletes == md_pc # "raised"


\* ------------------------------------------------------------ README.md
\* scripts/update_readme_from_bench.py: the two blocks of README.md between
\* marker comments are replaced by generated lines. Text is a sequence of
\* one-character strings.

\* BENCH_START = "<!-- BENCH_SUMMARY_START -->"
BENCH_START ==
  <<"<", "!", "-", "-", " ", "B", "E", "N", "C", "H", "_", "S", "U",
    "M", "M", "A", "R", "Y", "_", "S", "T", "A", "R", "T", " ", "-",
    "-", ">">>

\* BENCH_END = "<!-- BENCH_SUMMARY_END -->"
BENCH_END ==
  <<"<", "!", "-", "-", " ", "B", "E", "N", "C", "H", "_", "S", "U",
    "M", "M", "A", "R", "Y", "_", "E", "N", "D", " ", "-", "-", ">">>

\* LATEST_START = "<!-- LATEST_UPDATE_START -->"
LATEST_START ==
  <<"<", "!", "-", "-", " ", "L", "A", "T", "E", "S", "T", "_", "U",
    "P", "D", "A", "T", "E", "_", "S", "T", "A", "R", "T", " ", "-",
    "-", ">">>

\* LATEST_END = "<!-- LATEST_UPDATE_END -->"
LATEST_END ==
  <<"<", "!", "-", "-", " ", "L", "A", "T", "E", "S", "T", "_", "U",
    "P", "D", "A", "T", "E", "_", "E", "N", "D", " ", "-", "-", ">">>

\* start and end of a pair of markers
StartOf(pair) == IF pair = "bench" THEN BENCH_START ELSE LATEST_START
EndOf(pair) == IF pair = "bench" THEN BENCH_END ELSE LATEST_END

\* pattern.search(text) for re.escape(start) + r"(.*?)" + re.escape(end)
\* with re.DOTALL: the leftmost start that an end follows, and the first
\* end after it; <<0, 0>> when there is no match.
Search(text, start, end) ==
  LET from(i) == {j \in (i + Len(start))..Len(text) : OccursAt(text, end, j)}
      is == {i \in 1..Len(text) : OccursAt(text, start, i) /\ from(i) # {}}
  IN IF is = {} THEN <<0, 0>>
     ELSE LET i == CHOOSE k \in is : \A m \in is : k <= m
              j == CHOOSE k \in from(i) : \A m \in from(i) : k <= m
          IN <<i, j>>

\* The ASCII letters that re rejects after a backslash in a replacement
\* ("bad escape"): all but a, b, f, g, n, r, t and v.
BadEscape(c) ==
  /\ \E i \in 1..26 : c = LowerChars[i] \/ c = UpperChars[i]
  /\ c \notin {"a", "b", "f", "g", "n", "r", "t", "v"}

\* pattern.sub reads its replacement as a template: a backslash with n, r,
\* t or f is the control character, two backslashes are one, \1 is what the
\* group (.*?) matched, a backslash before another ASCII letter or at the
\* end is re.error, as is a reference to a group that does not exist, and a
\* backslash before any other character stays as it is. \a, \b, \v, \g<..>
\* and octal escapes do not occur in the lines explored.
RECURSIVE ExpandTemplate(_, _)
ExpandTemplate(t, group) ==
  LET bs == {i \in 1..Len(t) : t[i] = "\\"}
  IN IF bs = {} THEN [ok |-> TRUE, text |-> t]
     ELSE LET i == CHOOSE k \in bs : \A m \in bs : k <= m
              c == t[i + 1]
              after == ExpandTemplate(SubSeq(t, i + 2, Len(t)), group)
              piece == CASE c = "n" -> <<"\n">>
                         [] c = "r" -> <<"\r">>
                         [] c = "t" -> <<"\t">>
                         [] c = "f" -> <<"\f">>
                         [] c = "\\" -> <<"\\">>
                         [] c = "1" -> group
                         [] OTHER -> <<"\\", c>>
          IN IF i = Len(t) THEN [ok |-> FALSE, text |-> <<>>]
             ELSE IF BadEscape(c) \/ (IsDigit(c) /\ c # "1") \/ ~after.ok
             THEN [ok |-> FALSE, text |-> <<>>]
             ELSE [ok |-> TRUE,
                   text |-> SubSeq(t, 1, i - 1) \o piece \o after.text]

\* A replace_block that returns its text as it is.
ReplaceBlockLenient(text, start, end, lines) ==
  [ok |-> TRUE, error |-> None, text |-> text]

\* replace_block(text, start, end, lines): the text it returns, or the
\* exception it raises.
ReplaceBlock(text, start, end, lines) ==
  LET m == Search(text, start, end)
      replacement == start \o <<"\n">> \o JoinLines(lines, <<"\n">>)
                     \o <<"\n">> \o end
      group == SubSeq(text, m[1] + Len(start), m[2] - 1)
      e == ExpandTemplate(replacement, group)
  IN IF m[1] = 0 THEN [ok |-> FALSE, error |-> "ValueError", text |-> text]
     ELSE IF ~e.ok THEN [ok |-> FALSE, error |-> "re.error", text |-> text]
     ELSE [ok |-> TRUE, error |-> None,
           text |-> SubSeq(text, 1, m[1] - 1) \o e.text
                    \o SubSeq(text, m[2] + Len(end), Len(text))]

\* The pieces the texts explored are made of: the four markers and other
\* text.
Pieces == {BENCH_START, BENCH_END, LATEST_START, LATEST_END, <<"x", "\n">>}

\* The texts explored hold at most this many pieces.
MaxPieces == 4

RECURSIVE Texts(_)
Texts(n) ==
  IF n = 0 THEN {<<>>}
  ELSE LET shorter == Texts(n - 1)
       IN shorter \cup {t \o p : t \in shorter, p \in Pieces}

\* README.md as main may find it.
Readmes == Texts(MaxPieces)

\* What build_bench_lines returns: one line or more, made of the report's
\* date, numbers and units.
BenchLineLists ==
  {<<<<"*", " ", "a">>>>, <<<<"*", " ", "a">>, <<"*", " ", "b">>>>}

\* latest_lines: one line, "* " and what git log printed or the text saying
\* that it printed nothing; the subject of a commit is any text.
LatestLineLists ==
  {<<<<"*", " ", "c">>>>,
   <<<<"*", " ", "\\", "1">>>>,
   <<<<"*", " ", "\\", "n">>>>,
   <<<<"*", " ", "\\", "d">>>>,
   <<<<"*", " ", "c", "\\">>>>}

\* main up to README_PATH.read_text: the report is parsed, the lines are
\* built and README.md is read.
ReadReadme ==
  /\ upc = "start"
  /\ \E bl \in BenchLineLists, ll \in LatestLineLists :
       /\ bench_lines' = bl
       /\ latest_lines' = ll
  /\ content' = readme
  /\ upc' = "read"
  /\ UNCHANGED <<readme, uerr>>

\* parse_benchmark_results finds no BENCHMARK_RESULTS.md.
ParseRaises ==
  /\ upc = "start"
  /\ upc' = "raised"
  /\ uerr' = "FileNotFoundError"
  /\ UNCHANGED <<readme, content, bench_lines, latest_lines>>

\* content = replace_block(content, BENCH_START, BENCH_END, bench_lines)
ReplaceBench ==
  /\ upc = "read"
  /\ \E r \in {ReplaceBlock(content, BENCH_START, BENCH_END, bench_lines)} :
       IF r.ok
       THEN /\ content' = r.text
            /\ upc' = "bench"
            /\ UNCHANGED uerr
       ELSE /\ upc' = "raised"
            /\ uerr' = r.error
            /\ UNCHANGED content
  /\ UNCHANGED <<readme, bench_lines, latest_lines>>

\* content = replace_block(content, LATEST_START, LATEST_END, latest_lines)
ReplaceLatest ==
  /\ upc = "bench"
  /\ \E r \in {ReplaceBlock(content, LATEST_START, LATEST_END, latest_lines)} :
       IF r.ok
       THEN /\ content' = r.text
            /\ upc' = "latest"
            /\ UNCHANGED uerr
       ELSE /\ upc' = "raised"
            /\ uerr' = r.error
            /\ UNCHANGED content
  /\ UNCHANGED <<readme, bench_lines, latest_lines>>

\* README_PATH.write_text(content, encoding="utf-8")
WriteReadme ==
  /\ upc = "latest"
  /\ readme' = content
  /\ upc' = "written"
  /\ UNCHANGED <<content, bench_lines, latest_lines, uerr>>

InitReadme ==
  /\ RunInit
  /\ bench = "compute"
  /\ thread_count = 1
  /\ FramerIdle
  /\ ReportIdle
  /\ WrkIdle
  /\ StartIdle
  /\ PickIdle
  /\ CmpIdle
  /\ ReqIdle
  /\ ConnIdle
  /\ ProcIdle
  /\ MdIdle
  /\ BlockIdle
  /\ readme \in Readmes
  /\ content = <<>>
  /\ bench_lines = <<>>
  /\ latest_lines = <<>>
  /\ upc = "start"
  /\ uerr = None

NextReadme ==
  \/ ReadReadme /\ UNCHANGED <<runVars, fvars, reportVars, wrkVars, startVars, pickVars, cmpVars, reqVars, connVars, procVars, mdVars, blockVars>>
  \/ ParseRaises /\ UNCHANGED <<runVars, fvars, reportVars, wrkVars, startVars, pickVars, cmpVars, reqVars, connVars, procVars, mdVars, blockVars>>
  \/ ReplaceBench /\ UNCHANGED <<runVars, fvars, reportVars, wrkVars, startVars, pickVars, cmpVars, reqVars, connVars, procVars, mdVars, blockVars>>
  \/ ReplaceLatest /\ UNCHANGED <<runVars, fvars, reportVars, wrkVars, startVars, pickVars, cmpVars, reqVars, connVars, procVars, mdVars, blockVars>>
  \/ WriteReadme /\ UNCHANGED <<runVars, fvars, reportVars, wrkVars, startVars, pickVars, cmpVars, reqVars, connVars, procVars, mdVars, blockVars>>

SpecReadme == InitReadme /\ [][NextReadme]_vars

\* text holds the start marker of the pair with its end marker after it.
HasPair(text, pair) == Search(text, StartOf(pair), EndOf(pair))[1] # 0

\* C37: README.md is written only by the step after both blocks were
\* replaced, and when the text read from README.md lacks the pair of
\* benchmark-summary markers or the pair of latest-update markers, main ends
\* with ValueError and README.md is as it was.
ReadmeWrittenOnlyAfterBothBlocks ==
  [][/\ readme' # readme => upc = "latest" /\ upc' = "written"
     /\ (/\ upc \in {"read", "bench", "latest"}
         /\ ~(HasPair(readme, "bench") /\ HasPair(readme, "latest"))
         /\ upc' \in {"raised", "written"})
        => /\ upc' = "raised"
           /\ uerr' = "ValueError"
           /\ readme' = readme]_vars

\* The first block was replaced in content, the second pair of markers was
\* missing, and README.md still holds what was read.
RaisedAfterFirstBlockReplaced ==
  /\ upc = "raised"
  /\ uerr = "ValueError"
  /\ HasPair(readme, "bench")
  /\ ~HasPair(readme, "latest")
  /\ content # readme

\* The lists of lines replace_block is called with: those of main's two
\* calls.
BlockLineLists == BenchLineLists \cup LatestLineLists

\* replace_block(text, start, end, lines), the first application
ApplyOnce ==
  /\ rb_pc = "called"
  /\ rb_once' = ReplaceBlock(rb_text, StartOf(rb_pair), EndOf(rb_pair), rb_lines)
  /\ rb_pc' = "once"
  /\ UNCHANGED <<rb_text, rb_pair, rb_lines, rb_twice>>

\* replace_block(once, start, end, lines), a second application to what the
\* first returned
ApplyTwice ==
  /\ rb_pc = "once"
  /\ rb_once.ok
  /\ rb_twice' = ReplaceBlock(rb_once.text, StartOf(rb_pair), EndOf(rb_pair),
                              rb_lines)
  /\ rb_pc' = "twice"
  /\ UNCHANGED <<rb_text, rb_pair, rb_lines, rb_once>>

InitBlock ==
  /\ RunInit
  /\ bench = "compute"
  /\ thread_count = 1
  /\ FramerIdle
  /\ ReportIdle
  /\ WrkIdle
  /\ StartIdle
  /\ PickIdle
  /\ CmpIdle
  /\ ReqIdle
  /\ ConnIdle
  /\ ProcIdle
  /\ MdIdle
  /\ ReadmeIdle
  /\ rb_text \in Readmes
  /\ rb_pair \in {"bench", "latest"}
  /\ rb_lines \in BlockLineLists
  /\ rb_once = <<>>
  /\ rb_twice = <<>>
  /\ rb_pc = "called"

NextBlock ==
  \/ ApplyOnce /\ UNCHANGED <<runVars, fvars, reportVars, wrkVars, startVars, pickVars, cmpVars, reqVars, connVars, procVars, mdVars, readmeVars>>
  \/ ApplyTwice /\ UNCHANGED <<runVars, fvars, reportVars, wrkVars, startVars, pickVars, cmpVars, reqVars, connVars, procVars, mdVars, readmeVars>>

SpecBlock == InitBlock /\ [][NextBlock]_vars

\* new is old with nothing changed outside the block between the first
\* start marker and the end marker that follows it, both markers in place.
OnlyBlockChanged(old, new, start, end) ==
  LET m == Search(old, start, end)
      before == SubSeq(old, 1, m[1] - 1)
      after == SubSeq(old, m[2], Len(old))
  IN /\ Len(new) >= Len(before) + Len(start) + Len(after)
     /\ SubSeq(new, 1, Len(before) + Len(start)) = before \o start
     /\ SubSeq(new, Len(new) - Len(after) + 1, Len(new)) = after

\* replace_block leaves the text outside the block and the two markers as
\* they were.
ReplaceBlockIsLocal ==
  (rb_pc \in {"once", "twice"} /\ rb_once.ok)
    => OnlyBlockChanged(rb_text, rb_once.text, StartOf(rb_pair), EndOf(rb_pair))

\* A second application of replace_block with the same lines returns what
\* the first returned.
ReplaceBlockIsIdempotent ==
  rb_pc = "twice" => rb_twice.ok /\ rb_twice.text = rb_once.text

\* C38: what replace_block returns differs from its text only between the
\* first start marker and the end marker that follows it, with both markers
\* in place, and applying replace_block to it again with the same lines
\* returns it unchanged.
ReplaceBlockLocalAndIdempotent ==
  ReplaceBlockIsLocal /\ ReplaceBlockIsIdempotent

====
